---- MODULE Spec2Model ----
(***************************************************************************)
(* The execution core of the Queso bytecode VM (src/src/vm.rs): the        *)
(* evaluation stack, call frames, closures and upvalues, and the           *)
(* instruction dispatch of VM::run.                                        *)
(*                                                                         *)
(* Representation.                                                         *)
(*   Value     a record with a "tag" field: Null, Bool, Number, String,    *)
(*             Heap (a heap reference), Obj (an inline object, used for    *)
(*             function constants) and Uninitialized.                      *)
(*   Number    an f64: its sign, its mantissa and its binary exponent, or  *)
(*             an infinity, or NaN; the arithmetic rounds as IEEE 754 does. *)
(*   String    a sequence of characters (one-character strings).          *)
(*   Heap      a sequence of objects; the id of an object is its position. *)
(*   Function  an index into the function table fns of the loaded program. *)
(***************************************************************************)
EXTENDS Integers, Sequences, FiniteSets, TLC

VARIABLES
    fns,            \* the compiled program: the table of its Function objects
    frame,          \* VM::frame, the active CallFrame
    callstack,      \* VM::callstack, the saved CallFrames
    open_upvalues,  \* VM::open_upvalues
    stack,          \* VM::stack
    heap,           \* VM::heap
    gc_thr,         \* VM::gc_thr, a u32 by its digits
    stdout_buf,     \* VM::stdout_buf, the bytes in the buffer of the BufWriter
    stdout,         \* the bytes the BufWriter has written out to std::io::stdout()
    status,         \* "running", or how run ended: "ok", "err", "panic"
    err,            \* the message of the Err that run returned
    dispatched,     \* the instruction fetched last, with the state it was fetched in
    below_base,     \* history: the stack has been shorter than the stack_base of
                    \* the active frame at an instruction boundary
    probe           \* the last probe of the index arithmetic and its outcome

vars == <<fns, frame, callstack, open_upvalues, stack, heap, gc_thr,
          stdout_buf, stdout, status, err, dispatched, below_base, probe>>

-----------------------------------------------------------------------------
(* Bounds of the model *)

\* the Number constants of the operand programs are 0..MaxNum, 5, 2.5, 0.1 and 0.3
MaxNum == 2
\* the deltas of the jump programs are 0..MaxJump
MaxJump == 2
\* the closures the collection program allocates, and the locals each captures
GcClosures == 8
GcDescriptors == 1000
\* the stacks probed are 1..MaxLow and U16 - MaxExtra..U16 + MaxExtra long, the
\* operands of the probes are 0..MaxArgs
MaxLow == 20
MaxExtra == 2
MaxArgs == 2

-----------------------------------------------------------------------------
(* Program constants *)

GC_THR_START == 8000
\* GC_THR_GROW = 1.5 as the ratio GrowNum / GrowDen
GrowNum == 3
GrowDen == 2
\* the range of a u16
U16 == 65536
\* the capacity of BufWriter::new
BUF_SIZE == 8192

-----------------------------------------------------------------------------
(* Values *)

Null == [tag |-> "Null"]
Uninitialized == [tag |-> "Uninitialized"]
Bool(b) == [tag |-> "Bool", b |-> b]
HeapRef(id) == [tag |-> "Heap", id |-> id]
Obj(k) == [tag |-> "Obj", fn |-> k]
String(s) == [tag |-> "String", s |-> s]

Abs(x) == IF x < 0 THEN -x ELSE x
Max(a, b) == IF a > b THEN a ELSE b
Min(a, b) == IF a < b THEN a ELSE b

-----------------------------------------------------------------------------
(* Natural numbers of any size.  The mantissa of an f64 has 53 bits, more   *)
(* than an integer of the checker holds, so a natural number is kept as the *)
(* sequence of its digits in base Base, the least significant one first,   *)
(* without a zero as its last digit; <<>> is 0.                            *)

LimbBits == 3 * 5
Base == 2 ^ LimbBits

\* a without the zeros at its most significant end
Trim(a) ==
    LET nz == {i \in DOMAIN a : a[i] # 0}
    IN  IF nz = {} THEN <<>>
        ELSE SubSeq(a, 1, CHOOSE i \in nz : \A j \in nz : j <= i)

RECURSIVE Nat2Big(_)
Nat2Big(n) == IF n = 0 THEN <<>> ELSE <<n % Base>> \o Nat2Big(n \div Base)

RECURSIVE Big2Nat(_)
Big2Nat(a) == IF a = <<>> THEN 0 ELSE a[1] + Base * Big2Nat(Tail(a))

\* digit i of a, 0 past its ends
Limb(a, i) == IF i \in DOMAIN a THEN a[i] ELSE 0

Reverse(a) == [i \in 1..Len(a) |-> a[Len(a) + 1 - i]]

\* a + b has a carry into place i: a place below i makes one and the places
\* between pass it on
CarryIn(a, b, i) ==
    \E j \in 1..(i - 1) :
        /\ Limb(a, j) + Limb(b, j) >= Base
        /\ \A k \in (j + 1)..(i - 1) : Limb(a, k) + Limb(b, k) = Base - 1

BigAdd(a, b) ==
    Trim([i \in 1..(Max(Len(a), Len(b)) + 1) |->
            (Limb(a, i) + Limb(b, i) + (IF CarryIn(a, b, i) THEN 1 ELSE 0)) % Base])

\* a - b borrows from place i
BorrowIn(a, b, i) ==
    \E j \in 1..(i - 1) :
        /\ Limb(a, j) < Limb(b, j)
        /\ \A k \in (j + 1)..(i - 1) : Limb(a, k) = Limb(b, k)

\* a - b, for a >= b
BigSub(a, b) ==
    Trim([i \in 1..Len(a) |->
            (Base + a[i] - Limb(b, i) - (IF BorrowIn(a, b, i) THEN 1 ELSE 0)) % Base])

\* a * k, for k <= Base: the low digits of the products and, one place up,
\* their high digits
BigMulSmall(a, k) ==
    BigAdd([i \in 1..Len(a) |-> (a[i] * k) % Base],
           [i \in 1..(Len(a) + 1) |-> (Limb(a, i - 1) * k) \div Base])

\* -1, 0, 1 as a < b, a = b, a > b
BigCmp(a, b) ==
    IF Len(a) # Len(b) THEN (IF Len(a) < Len(b) THEN -1 ELSE 1)
    ELSE LET df == {i \in DOMAIN a : a[i] # b[i]}
             Sign(i) == IF a[i] < b[i] THEN -1 ELSE 1
         IN  IF df = {} THEN 0 ELSE Sign(CHOOSE i \in df : \A j \in df : j <= i)

BigLess(a, b) == BigCmp(a, b) < 0
BigLeq(a, b) == BigCmp(a, b) <= 0

\* a * Base^n
ShlLimbs(a, n) == IF a = <<>> THEN <<>> ELSE [i \in 1..n |-> 0] \o a

RECURSIVE BigMul(_, _)
BigMul(a, b) ==
    IF Len(a) = 0 \/ Len(b) = 0 THEN <<>>
    ELSE IF Len(b) = 1 THEN BigMulSmall(a, b[1])
    ELSE BigAdd(BigMul(a, SubSeq(b, 1, Len(b) \div 2)),
                ShlLimbs(BigMul(a, SubSeq(b, Len(b) \div 2 + 1, Len(b))),
                         Len(b) \div 2))

\* a * 2^s rounded down, for s of any sign
BigShl(a, s) ==
    LET w == s \div LimbBits
        k == 2 ^ (s % LimbBits)
    IN  Trim([j \in 1..Max(Len(a) + w + 1, 0) |->
                ((Limb(a, j - w) * k) % Base) + ((Limb(a, j - w - 1) * k) \div Base)])

\* a \div 2^s
BigShr(a, s) == BigShl(a, -s)

\* a % 2^s
BigLowBits(a, s) ==
    Trim([i \in 1..Min(Len(a), s \div LimbBits + 1) |->
            IF i <= s \div LimbBits THEN a[i] ELSE a[i] % (2 ^ (s % LimbBits))])

\* bit i of a, the least significant one being bit 0
Bit(a, i) == (Limb(a, i \div LimbBits + 1) \div (2 ^ (i % LimbBits))) % 2

\* the number of bits of a: 2^(BitLen(a) - 1) <= a < 2^BitLen(a)
BitLen(a) ==
    IF a = <<>> THEN 0
    ELSE LimbBits * (Len(a) - 1)
            + (CHOOSE k \in 1..LimbBits : 2 ^ (k - 1) <= a[Len(a)] /\ a[Len(a)] < 2 ^ k)

BigIsOdd(a) == Bit(a, 0) = 1

\* q, or up to 2 less: the most that b goes into t
QLess(t, b, q) ==
    q - Cardinality({j \in 0..1 : q > j /\ BigLess(t, BigMulSmall(b, q - j))})

\* the digit t \div b, for t < b * Base and a b whose last digit is Base / 2 or
\* more: the two digits at the head of t by the one at the head of b give the
\* digit or up to 2 more
QDigit(t, b) ==
    QLess(t, b, Min((Limb(t, Len(b) + 1) * Base + Limb(t, Len(b))) \div b[Len(b)],
                    Base - 1))

\* one step of the long division: the digit q and what it leaves of t
DivStep(t, b, q) == [q |-> <<q>>, r |-> BigSub(t, BigMulSmall(b, q))]

\* the digits of two parts of a long division, and what the second one leaves
DivJoin(hi, lo) == [q |-> hi.q \o lo.q, r |-> lo.r]

RECURSIVE DivLimbs(_, _, _)
\* the lower half of the digits of a, after the upper half has left hi.r
DivLower(a, b, hi) == DivJoin(hi, DivLimbs(SubSeq(a, 1, Len(a) \div 2), b, hi.r))

\* long division: the digits of (r * Base^Len(a) + a) \div b, the most
\* significant one first as the division makes them, and the remainder, for
\* r < b and b as QDigit takes it
DivLimbs(a, b, r) ==
    IF Len(a) = 0 THEN [q |-> <<>>, r |-> r]
    ELSE IF Len(a) = 1 THEN DivStep(Trim(<<a[1]>> \o r), b, QDigit(Trim(<<a[1]>> \o r), b))
    ELSE DivLower(a, b, DivLimbs(SubSeq(a, Len(a) \div 2 + 1, Len(a)), b, r))

\* the quotient with its least significant digit first, and the remainder of
\* the numbers before the shift
DivUnshifted(d, s) == [q |-> Trim(Reverse(d.q)), r |-> BigShr(d.r, s)]

\* the division of a by b, both times 2^s
DivShifted(a, b, s) ==
    DivUnshifted(DivLimbs(BigShl(a, s), BigShl(b, s), <<>>), s)

\* the quotient and the remainder of a by b, for b > 0: both are shifted to
\* bring the last digit of b to Base / 2 or more, which leaves the quotient
BigDivMod(a, b) == DivShifted(a, b, LimbBits - 1 - ((BitLen(b) - 1) % LimbBits))

RECURSIVE BigPow10(_)
BigPow10(k) ==
    IF k <= 4 THEN <<10 ^ k>>
    ELSE BigMul(BigPow10(k - (k \div 2)), BigPow10(k \div 2))

-----------------------------------------------------------------------------
(* IEEE 754 binary floating point.  A finite number is (-1)^neg * m * 2^e  *)
(* with m < 2^p; it is kept with m >= 2^(p-1) (normal) or e = emin          *)
(* (subnormal), and 0 with m = <<>> and e = 0, so that two finite numbers   *)
(* other than 0 are equal exactly when their records are.                   *)

\* f64: 53 bits of mantissa, 11 of exponent; f32: 24 and 8
F64MantBits == 53
F64ExpBits == 11
F32MantBits == 24
F32ExpBits == 8

\* a format: the bits p of a mantissa, the least and the largest exponent e
Format(p, w) == [p |-> p, emin |-> 3 - 2 ^ (w - 1) - p, emax |-> 2 ^ (w - 1) - p]
F64 == Format(F64MantBits, F64ExpBits)
F32 == Format(F32MantBits, F32ExpBits)

Finite(neg, m, e) == [tag |-> "Number", kind |-> "finite", neg |-> neg, m |-> m, e |-> e]
Zero(neg) == Finite(neg, <<>>, 0)
Inf(neg) == [tag |-> "Number", kind |-> "inf", neg |-> neg, m |-> <<>>, e |-> 0]
NaN == [tag |-> "Number", kind |-> "nan", neg |-> FALSE, m |-> <<>>, e |-> 0]

IsNaN(x) == x.kind = "nan"
IsInf(x) == x.kind = "inf"
NumIsZero(x) == x.kind = "finite" /\ x.m = <<>>

\* m / 2^shift is nearer to the whole number above it than to the one below,
\* or as near to both with the one below odd
RoundsUp(m, shift) ==
    /\ shift > 0
    /\ Bit(m, shift - 1) = 1
    /\ BigLowBits(m, shift - 1) # <<>> \/ Bit(m, shift) = 1

\* the number of format f with mantissa q <= 2^p and exponent e: a mantissa of
\* 2^p is halved, an exponent above emax makes an infinity
Packed(f, neg, q, e) ==
    IF q = <<>> THEN Zero(neg)
    ELSE IF e + (IF BitLen(q) > f.p THEN 1 ELSE 0) > f.emax THEN Inf(neg)
    ELSE Finite(neg, BigShr(q, IF BitLen(q) > f.p THEN 1 ELSE 0),
                e + (IF BitLen(q) > f.p THEN 1 ELSE 0))

\* (-1)^neg * m * 2^e in format f, m losing its last shift bits
Rounded(f, neg, m, e, shift) ==
    Packed(f, neg, BigAdd(BigShr(m, shift), IF RoundsUp(m, shift) THEN <<1>> ELSE <<>>),
           e + shift)

\* the number of format f nearest to (-1)^neg * m * 2^e, ties to the even
\* mantissa: m loses the bits below the p it keeps, or below emin
RoundFloat(f, neg, m, e) ==
    IF m = <<>> THEN Zero(neg)
    ELSE Rounded(f, neg, m, e, Max(BitLen(m) - f.p, f.emin - e))

\* (-1)^neg * dm.q * 2^e in format f, for a quotient dm.q of p + 2 bits or
\* more with the remainder dm.r: one more bit tells of a remainder
Sticky(f, neg, dm, e) ==
    IF dm.r = <<>> THEN RoundFloat(f, neg, dm.q, e)
    ELSE RoundFloat(f, neg, BigAdd(BigShl(dm.q, 1), <<1>>), e - 1)

\* the number of format f nearest to (-1)^neg * (n / d) * 2^e, for n, d > 0
RoundRatio(f, neg, n, d, e) ==
    Sticky(f, neg, BigDivMod(BigShl(n, Max(0, f.p + 2 + BitLen(d) - BitLen(n))), d),
           e - Max(0, f.p + 2 + BitLen(d) - BitLen(n)))

\* the f64 nearest to the rational n / d
Number(n, d) ==
    IF n = 0 THEN Zero(FALSE)
    ELSE RoundRatio(F64, (n < 0) # (d < 0), Nat2Big(Abs(n)), Nat2Big(Abs(d)), 0)

Int2Num(i) == RoundFloat(F64, i < 0, Nat2Big(Abs(i)), 0)

\* -x
NumNeg(x) == IF IsNaN(x) THEN x ELSE [x EXCEPT !.neg = ~ @]

\* (-1)^x.neg * a * 2^e + (-1)^y.neg * b * 2^e in format f
Sum(f, x, y, a, b, e) ==
    IF x.neg # y.neg /\ a = b THEN Zero(FALSE)
    ELSE RoundFloat(f, IF x.neg = y.neg \/ BigLess(b, a) THEN x.neg ELSE y.neg,
                    IF x.neg = y.neg THEN BigAdd(a, b)
                    ELSE BigSub(IF BigLess(b, a) THEN a ELSE b,
                                IF BigLess(b, a) THEN b ELSE a),
                    e)

\* x + y in format f
FloatAdd(f, x, y) ==
    IF IsNaN(x) \/ IsNaN(y) THEN NaN
    ELSE IF IsInf(x) THEN (IF IsInf(y) /\ x.neg # y.neg THEN NaN ELSE x)
    ELSE IF IsInf(y) THEN y
    ELSE IF NumIsZero(x) /\ NumIsZero(y) THEN Zero(x.neg /\ y.neg)
    ELSE IF NumIsZero(x) THEN y
    ELSE IF NumIsZero(y) THEN x
    ELSE Sum(f, x, y, BigShl(x.m, x.e - Min(x.e, y.e)), BigShl(y.m, y.e - Min(x.e, y.e)),
             Min(x.e, y.e))

\* x * y in format f
FloatMul(f, x, y) ==
    IF IsNaN(x) \/ IsNaN(y) THEN NaN
    ELSE IF IsInf(x) \/ IsInf(y)
         THEN (IF NumIsZero(x) \/ NumIsZero(y) THEN NaN ELSE Inf(x.neg # y.neg))
    ELSE RoundFloat(f, x.neg # y.neg, BigMul(x.m, y.m), x.e + y.e)

\* x / y in format f
FloatDiv(f, x, y) ==
    IF IsNaN(x) \/ IsNaN(y) THEN NaN
    ELSE IF IsInf(x) THEN (IF IsInf(y) THEN NaN ELSE Inf(x.neg # y.neg))
    ELSE IF IsInf(y) THEN Zero(x.neg # y.neg)
    ELSE IF NumIsZero(y) THEN (IF NumIsZero(x) THEN NaN ELSE Inf(x.neg # y.neg))
    ELSE IF NumIsZero(x) THEN Zero(x.neg # y.neg)
    ELSE RoundRatio(f, x.neg # y.neg, x.m, y.m, x.e - y.e)

\* the operators of f64: n1 + n2, n1 - n2, n1 * n2, n1 / n2
NumAdd(x, y) == FloatAdd(F64, x, y)
NumSub(x, y) == FloatAdd(F64, x, NumNeg(y))
NumMul(x, y) == FloatMul(F64, x, y)
NumDiv(x, y) == FloatDiv(F64, x, y)

\* |x| > |y| for two numbers that are not NaN
MagGt(x, y) ==
    IF IsInf(x) THEN ~ IsInf(y)
    ELSE IF IsInf(y) \/ NumIsZero(x) THEN FALSE
    ELSE IF NumIsZero(y) THEN TRUE
    ELSE x.e > y.e \/ (x.e = y.e /\ BigLess(y.m, x.m))

\* x == y on f64: 0 and -0 are equal, NaN is equal to nothing
NumEq(x, y) ==
    /\ ~ IsNaN(x) /\ ~ IsNaN(y)
    /\ (NumIsZero(x) /\ NumIsZero(y)) \/ x = y

\* x > y on f64
NumGt(x, y) ==
    /\ ~ IsNaN(x) /\ ~ IsNaN(y)
    /\ ~ NumEq(x, y)
    /\ IF x.neg # y.neg THEN y.neg
       ELSE IF x.neg THEN MagGt(y, x) ELSE MagGt(x, y)

\* the bits of a u32
U32Bits == 32
\* u32::MAX
U32Max == BigSub(BigShl(<<1>>, U32Bits), <<1>>)

\* x as u32, by its digits: the fraction is dropped and the cast saturates,
\* NaN and what is below 0 give 0, what is above u32::MAX gives u32::MAX
TruncNat(x) ==
    IF IsNaN(x) \/ x.neg THEN <<>>
    ELSE IF IsInf(x) \/ BitLen(x.m) + x.e > U32Bits THEN U32Max
    ELSE BigShl(x.m, x.e)

IsNumber(v) == v.tag = "Number"
IsString(v) == v.tag = "String"

-----------------------------------------------------------------------------
(* Text *)

\* the characters of the model's texts, in ASCII order
Chars == <<"+", "-", ".", "0", "1", "2", "3", "4", "5", "6", "7", "8", "9", "<", ">",
           "E", "N", "a", "b", "e", "f", "h", "i", "l", "n", "r", "s", "t", "u", "y">>

\* the position of a character in the ASCII order
Code(c) == CHOOSE i \in 1..Len(Chars) : Chars[i] = c

DigitChars == <<"0", "1", "2", "3", "4", "5", "6", "7", "8", "9">>

IsDigit(c) == \E i \in 1..Len(DigitChars) : DigitChars[i] = c

DigitCh(q) == DigitChars[q + 1]

DigitVal(c) == (CHOOSE i \in 1..Len(DigitChars) : DigitChars[i] = c) - 1

RECURSIVE Digits(_)
\* the decimal digits of a natural number
Digits(q) ==
    IF q < 10 THEN <<DigitCh(q)>> ELSE Digits(q \div 10) \o <<DigitCh(q % 10)>>

Zeros(n) == [i \in 1..n |-> "0"]

\* flt2dec::decode of a finite f64 other than 0: the number is mant * 2^exp,
\* the numbers that round to it lie from (mant - minus) * 2^exp to
\* (mant + plus) * 2^exp, the ends included when inclusive.  The least
\* mantissa of an exponent has the numbers below it twice as near
Decoded(x) ==
    LET edge == Bit(x.m, F64.p - 1) = 1 /\ BigLowBits(x.m, F64.p - 1) = <<>>
    IN  [mant |-> BigShl(x.m, IF edge THEN 2 ELSE 1),
         minus |-> <<1>>,
         plus |-> IF edge THEN <<2>> ELSE <<1>>,
         exp |-> x.e - (IF edge THEN 2 ELSE 1),
         inclusive |-> BitLen(x.m) < F64.p \/ ~ BigIsOdd(x.m)]

\* estimate_scaling_factor: the exponent k of the digits or up to 2 less, from
\* the bits of the number times log10(2), rounded down
Estimate(d) ==
    LET bits == BitLen(d.mant) + d.exp
    IN  (bits * (IF bits >= 0 THEN 30102 ELSE 30103)) \div 100000

\* the parts of a decoded number that format_shortest scales
Parts == {"mant", "minus", "plus", "scale"}

\* the start of format_shortest for the exponent k: mant, minus and plus
\* times 2^exp, or over the scale 2^-exp, and mant / scale divided by
\* 10^(k-1), so that the first digit is its whole part
Scaled(d, k) ==
    [part \in Parts \cup {"inclusive", "k"} |->
        IF part = "inclusive" THEN d.inclusive
        ELSE IF part = "k" THEN k
        ELSE BigMul(BigShl(IF part = "scale" THEN <<1>> ELSE d[part],
                           IF part = "scale" THEN Max(-d.exp, 0) ELSE Max(d.exp, 0)),
                    BigPow10(IF part = "scale" THEN Max(k - 1, 0) ELSE Max(1 - k, 0)))]

\* a is nearer than b, or as near when the ends are included
Within(w, a, b) == BigCmp(a, b) < (IF w.inclusive THEN 1 ELSE 0)

\* k is the exponent of the digits: 10^(k-1) < (mant + plus) / scale <= 10^k
\* for the scale before w, < and <= changing places when the ends are included
Fits(w) ==
    /\ Within(w, w.scale, BigAdd(w.mant, w.plus))
    /\ ~ Within(w, BigMulSmall(w.scale, 10), BigAdd(w.mant, w.plus))

\* the number scaled for the exponent of its digits
ScaledFrom(d, est) == CHOOSE w \in {Scaled(d, k) : k \in est..(est + 2)} : Fits(w)

\* the most digits format_shortest makes for an f64 (MAX_SIG_DIGITS)
MaxDigits == (F64MantBits * 30103) \div 100000 + 2

\* the digit of a round: the times the scale goes into mant, 0 to 9
DigitOf(w, mant) == Cardinality({q \in 1..9 : BigLeq(BigMulSmall(w.scale, q), mant)})

\* a round of the digit generation of format_shortest has taken the digit d
\* off mant and left rem: the digits so far round to the number from below
\* (down) or, with one more in the last place, from above (up)
Took(w, rem, minus, plus, d) ==
    [d |-> d, rem |-> rem,
     down |-> Within(w, rem, minus),
     up |-> Within(w, w.scale, BigAdd(rem, plus)),
     half |-> BigLeq(w.scale, BigAdd(rem, rem))]

Take(w, mant, minus, plus, d) ==
    Took(w, BigSub(mant, BigMulSmall(w.scale, d)), minus, plus, d)

Round(w, mant, minus, plus) == Take(w, mant, minus, plus, DigitOf(w, mant))

RECURSIVE Generate(_, _, _, _, _)
\* the rounds after round i, which has ended in r: mant, minus and plus are
\* 10 times what it has left of them
Generated(w, i, minus, plus, r) ==
    IF r.down \/ r.up \/ i = MaxDigits THEN <<r>>
    ELSE <<r>> \o Generate(w, i + 1, BigMulSmall(r.rem, 10),
                           BigMulSmall(minus, 10), BigMulSmall(plus, 10))

\* the digit generation of flt2dec::strategy::dragon::format_shortest from
\* round i on: one digit of mant / scale a round, until the digits so far
\* round to the number
Generate(w, i, mant, minus, plus) ==
    Generated(w, i, minus, plus, Round(w, mant, minus, plus))

\* flt2dec::round_up: the digits plus one in the last place; all nines become
\* a one and as many zeros, and one zero more
RoundUp(digits) ==
    LET low == {i \in DOMAIN digits : digits[i] # 9}
    IN  IF low = {} THEN [digits |-> <<1>> \o [i \in DOMAIN digits |-> 0], carry |-> 1]
        ELSE LET p == CHOOSE i \in low : \A j \in low : j <= i
             IN  [digits |-> [i \in DOMAIN digits |->
                                IF i < p THEN digits[i]
                                ELSE IF i = p THEN digits[i] + 1 ELSE 0],
                  carry |-> 0]

\* the end of format_shortest: the digits of the rounds, with one more in the
\* last place when they round to the number from above only, or are the
\* farther of the two
Finished(rounds, up, k) ==
    [k |-> k + RoundUp([i \in DOMAIN rounds |-> rounds[i].d]).carry * (IF up THEN 1 ELSE 0),
     digits |-> IF up THEN RoundUp([i \in DOMAIN rounds |-> rounds[i].d]).digits
                ELSE [i \in DOMAIN rounds |-> rounds[i].d]]

ShortestOf(w, rounds) ==
    Finished(rounds,
             rounds[Len(rounds)].up /\ (~ rounds[Len(rounds)].down \/ rounds[Len(rounds)].half),
             w.k)

ShortestFrom(w) == ShortestOf(w, Generate(w, 1, w.mant, w.minus, w.plus))

ShortestOn(d) == ShortestFrom(ScaledFrom(d, Estimate(d)))

\* the shortest digits that round to x, a finite f64 other than 0, and the
\* exponent k: x is 0.d1d2..dn * 10^k
Shortest(x) == ShortestOn(Decoded(x))

\* flt2dec::digits_to_dec_str without an exponent
DecStr(s) ==
    IF s.k <= 0 THEN <<"0", ".">> \o Zeros(-s.k) \o [i \in DOMAIN s.digits |-> DigitCh(s.digits[i])]
    ELSE IF s.k < Len(s.digits)
    THEN [i \in 1..(Len(s.digits) + 1) |->
            IF i <= s.k THEN DigitCh(s.digits[i])
            ELSE IF i = s.k + 1 THEN "." ELSE DigitCh(s.digits[i - 1])]
    ELSE [i \in DOMAIN s.digits |-> DigitCh(s.digits[i])] \o Zeros(s.k - Len(s.digits))

\* the Display of an f64: "5", "-5", "2.5", "0.30000000000000004", "-0", "inf", "NaN"
NumberText(x) ==
    IF IsNaN(x) THEN <<"N", "a", "N">>
    ELSE (IF x.neg THEN <<"-">> ELSE <<>>)
            \o (IF IsInf(x) THEN <<"i", "n", "f">>
                ELSE IF NumIsZero(x) THEN <<"0">>
                ELSE DecStr(Shortest(x)))

TextTrue == <<"t", "r", "u", "e">>
TextFalse == <<"f", "a", "l", "s", "e">>
TextNull == <<"n", "u", "l", "l">>
\* the debug form of a heap reference
TextHeap(id) == <<"<", "h">> \o Digits(id) \o <<">">>

Ok(v) == [ok |-> TRUE, val |-> v]
Err(msg) == [ok |-> FALSE, err |-> msg]

ErrToString == "TypeCoercion: to_string"
ErrToNumber == "TypeCoercion: to_number"

\* Value::to_string
to_string(v) ==
    CASE v.tag = "Number" -> Ok(NumberText(v))
      [] v.tag = "String" -> Ok(v.s)
      [] v.tag = "Bool" -> Ok(IF v.b THEN TextTrue ELSE TextFalse)
      [] v.tag = "Null" -> Ok(TextNull)
      [] v.tag = "Heap" -> Ok(TextHeap(v.id))
      [] OTHER -> Err(ErrToString)

RECURSIVE DigitsValue(_)
\* the natural number a sequence of digits denotes
DigitsValue(s) ==
    IF s = <<>> THEN 0
    ELSE 10 * DigitsValue(SubSeq(s, 1, Len(s) - 1)) + DigitVal(s[Len(s)])

RECURSIVE BigDigitsValue(_)
\* the same for a sequence of any length
BigDigitsValue(s) ==
    IF Len(s) <= 4 THEN Nat2Big(DigitsValue(s))
    ELSE BigAdd(BigMul(BigDigitsValue(SubSeq(s, 1, Len(s) \div 2)),
                       BigPow10(Len(s) - (Len(s) \div 2))),
                BigDigitsValue(SubSeq(s, Len(s) \div 2 + 1, Len(s))))

AllDigits(s) == \A i \in 1..Len(s) : IsDigit(s[i])

\* s without the zeros at its head
NoLeadingZeros(s) ==
    LET nz == {i \in DOMAIN s : s[i] # "0"}
    IN  IF nz = {} THEN <<>> ELSE SubSeq(s, CHOOSE i \in nz : \A j \in nz : i <= j, Len(s))

\* the least index of s that holds a character of cs, Len(s) + 1 without one
Find(s, cs) ==
    LET at == {i \in DOMAIN s : s[i] \in cs}
    IN  IF at = {} THEN Len(s) + 1 ELSE CHOOSE i \in at : \A j \in at : i <= j

Lower(c) ==
    CASE c = "A" -> "a" [] c = "E" -> "e" [] c = "F" -> "f" [] c = "I" -> "i"
      [] c = "N" -> "n" [] c = "T" -> "t" [] c = "Y" -> "y" [] OTHER -> c

\* the decimal exponents beyond which a text is infinite, or 0, whatever its digits
MaxDecExp == 400

\* the f64 nearest to (-1)^neg * 0.digits * 10^x, for digits without a zero at the head
DecimalValue(neg, digits, x) ==
    IF digits = <<>> THEN Zero(neg)
    ELSE IF x > MaxDecExp THEN Inf(neg)
    ELSE IF x < -MaxDecExp THEN Zero(neg)
    ELSE RoundRatio(F64, neg,
                    BigMul(BigDigitsValue(digits), BigPow10(Max(x - Len(digits), 0))),
                    BigPow10(Max(Len(digits) - x, 0)), 0)

\* str::parse::<f64>: [sign] (inf | infinity | nan | digits[.digits][e[sign]digits]),
\* with a digit before or after the point
ParseNumber(s) ==
    LET signed == Len(s) > 0 /\ s[1] \in {"+", "-"}
        neg == signed /\ s[1] = "-"
        body == IF signed THEN SubSeq(s, 2, Len(s)) ELSE s
        name == [i \in DOMAIN body |-> Lower(body[i])]
        ex == Find(body, {"e", "E"})
        mant == SubSeq(body, 1, ex - 1)
        dot == Find(mant, {"."})
        ip == SubSeq(mant, 1, dot - 1)
        fp == SubSeq(mant, dot + 1, Len(mant))
        etext == SubSeq(body, ex + 1, Len(body))
        esigned == Len(etext) > 0 /\ etext[1] \in {"+", "-"}
        edigits == IF esigned THEN SubSeq(etext, 2, Len(etext)) ELSE etext
        esig == NoLeadingZeros(edigits)
        emag == IF Len(esig) > 4 THEN 10 * MaxDecExp ELSE DigitsValue(esig)
        exp == IF ex > Len(body) THEN 0
               ELSE IF esigned /\ etext[1] = "-" THEN -emag ELSE emag
        sig == NoLeadingZeros(ip \o fp)
    IN  IF name = <<"i", "n", "f">> \/ name = <<"i", "n", "f", "i", "n", "i", "t", "y">>
        THEN Ok(Inf(neg))
        ELSE IF name = <<"n", "a", "n">> THEN Ok(NaN)
        ELSE IF /\ AllDigits(ip) /\ AllDigits(fp) /\ Len(ip) + Len(fp) > 0
                /\ ex > Len(body) \/ (AllDigits(edigits) /\ Len(edigits) > 0)
        THEN Ok(DecimalValue(neg, sig, exp + Len(ip) - (Len(ip \o fp) - Len(sig))))
        ELSE Err(ErrToNumber)

\* Value::to_number
to_number(v) ==
    CASE v.tag = "Number" -> Ok(v)
      [] v.tag = "Bool" -> Ok(Int2Num(IF v.b THEN 1 ELSE 0))
      [] v.tag = "Null" -> Ok(Int2Num(0))
      [] v.tag = "String" -> ParseNumber(v.s)
      [] OTHER -> Err(ErrToNumber)

\* Value::is_truthy
is_truthy(v) ==
    ~ (v = Bool(FALSE) \/ v = Null \/ v = Uninitialized)

\* Value::is_equal_to: two Numbers by ==, other values by tag and content
is_equal_to(a, b) == IF IsNumber(a) /\ IsNumber(b) THEN NumEq(a, b) ELSE a = b

RECURSIVE SeqGt(_, _)
\* the lexicographic order of two texts
SeqGt(s, t) ==
    IF s = <<>> THEN FALSE
    ELSE IF t = <<>> THEN TRUE
    ELSE IF s[1] # t[1] THEN Code(s[1]) > Code(t[1])
    ELSE SeqGt(Tail(s), Tail(t))

Comparable(a, b) ==
    (IsNumber(a) /\ IsNumber(b)) \/ (IsString(a) /\ IsString(b))

\* Value::is_greater_than on two Numbers or two Strings
is_greater_than(a, b) ==
    IF IsNumber(a) THEN NumGt(a, b) ELSE SeqGt(a.s, b.s)

-----------------------------------------------------------------------------
(* Instructions, chunks, heap objects *)

\* an instruction: its name, its u16 operands and, for Closure, its descriptors
Instr(op, a, b, upv) == [op |-> op, a |-> a, b |-> b, upv |-> upv]
I0(op) == Instr(op, 0, 0, <<>>)
I1(op, a) == Instr(op, a, 0, <<>>)
\* UpValueIndex
Local(id) == [is_local |-> TRUE, id |-> id]
Outer(id) == [is_local |-> FALSE, id |-> id]

\* a Function: its chunk (code, consts, lines) and its captured slots
Function(code, consts, lines, captured) ==
    [code |-> code, consts |-> consts, lines |-> lines, captured |-> captured]

None == [op |-> "None"]

\* Chunk::try_get_instr, i counted from 0
try_get_instr(fn, i) == IF i + 1 \in DOMAIN fn.code THEN fn.code[i + 1] ELSE None

\* Chunk::get_const, id counted from 0
has_const(fn, id) == id + 1 \in DOMAIN fn.consts
get_const(fn, id) == fn.consts[id + 1]

\* Chunk::get_line_no, i counted from 0: the line of the last instruction
\* stands for every later index
get_line_no(fn, i) ==
    IF fn.lines = <<>> THEN 0
    ELSE IF i + 1 \in DOMAIN fn.lines THEN fn.lines[i + 1]
    ELSE fn.lines[Len(fn.lines)]

\* ObjType
ObjFunction(k) == [type |-> "Function", fn |-> k]
ObjClosure(func, upvalues) == [type |-> "Closure", func |-> func, upvalues |-> upvalues]
ObjUpValue(kind, at) == [type |-> "UpValue", kind |-> kind, at |-> at]
ObjValue(v) == [type |-> "Value", val |-> v]
ObjFree == [type |-> "Free"]

\* UpValue::stack
UpValueStack(slot) == ObjUpValue("Stack", slot)

\* Closure::from_function
Closure(func, upvalues) == [func |-> func, upvalues |-> upvalues]

\* CallFrame::from_closure
CallFrame(clsr, stack_base) == [clsr |-> clsr, cur_instr |-> 0, stack_base |-> stack_base]

-----------------------------------------------------------------------------
(* The VM as a record, and the helpers of its handlers.  A handler maps the *)
(* VM to the set of VMs it can leave behind.                                *)

VM == [frame |-> frame, callstack |-> callstack, open_upvalues |-> open_upvalues,
       stack |-> stack, heap |-> heap, gc_thr |-> gc_thr,
       stdout_buf |-> stdout_buf, stdout |-> stdout, status |-> status, err |-> err]

\* a panic unwinds out of run
Panic(vm) == [vm EXCEPT !.status = "panic"]
\* return Err(msg)
Fail(vm, msg) == [vm EXCEPT !.status = "err", !.err = msg]

\* Heap::get
HeapHas(h, id) == id \in DOMAIN h /\ h[id].type # "Free"
\* Heap::alloc: the id of the new object is the next position
HeapAlloc(h, obj) == Append(h, obj)
NewId(h) == Len(h) + 1
\* heap.mem.len()
HeapLen(h) == Cardinality({i \in DOMAIN h : h[i].type # "Free"})

\* Heap::get_clsr_fn
get_clsr_fn(vm, clsr) == fns[vm.heap[clsr.func].fn]

CurFn(vm) == get_clsr_fn(vm, vm.frame.clsr)

\* u16 arithmetic: an overflow panics in a build with overflow checks and
\* wraps in a build without
U16Sub(x, y) == [overflow |-> x - y < 0, wrapped |-> (x - y + U16) % U16]
U16Add(x, y) == [overflow |-> x + y >= U16, wrapped |-> (x + y) % U16]
AsU16(x) == x % U16

\* the outcomes of a handler that computes the u16 index r and goes on with K
WithU16(vm, r, K(_)) ==
    (IF r.overflow THEN {Panic(vm)} ELSE {}) \cup K(r.wrapped)

\* VM::get_stack, VM::get_stack_mut, VM::set_stack index test
InStack(vm, id) == id + 1 \in DOMAIN vm.stack
\* VM::get_stack
get_stack(vm, id) == vm.stack[id + 1]
\* VM::set_stack
set_stack(vm, id, val) == [vm EXCEPT !.stack[id + 1] = val]

\* the u16 index VM::get_stack_top computes
TopIndex(vm) == U16Sub(AsU16(Len(vm.stack)), 1)

\* the outcomes of a handler that peeks the top with get_stack_top and goes on with K
WithTop(vm, K(_)) ==
    WithU16(vm, TopIndex(vm),
            LAMBDA id : IF InStack(vm, id) THEN K(get_stack(vm, id)) ELSE {Panic(vm)})

\* the outcomes of a handler that indexes local id of the active frame
WithLocal(vm, id, K(_)) ==
    WithU16(vm, U16Add(id, AsU16(vm.frame.stack_base)), K)

\* VM::pop_stack
CanPop(vm) == vm.stack # <<>>
Top(vm) == vm.stack[Len(vm.stack)]
Popped(vm) == [vm EXCEPT !.stack = SubSeq(@, 1, Len(@) - 1)]
Push(vm, v) == [vm EXCEPT !.stack = Append(@, v)]

\* VM::next_instr
next_instr(vm) == [vm EXCEPT !.frame.cur_instr = @ + 1]

-----------------------------------------------------------------------------
(* The results of the operators *)

ErrAdd == "The addition operator can only be used with numbers and strings"
ErrSubtract == "The subtraction operator can only be used with numbers"
ErrMultiply == "The multiplication operator can only be used with numbers"
ErrDivide == "The division operator can only be used with numbers"
ErrDivideByZero == "Cannot divide by 0"
ErrNotCallable == "Tried to call a value which isn't a function"

\* Instruction::Negate on the popped value
NegateResult(v) ==
    LET n == to_number(v) IN IF n.ok THEN Ok(NumNeg(n.val)) ELSE n

\* Instruction::ToNumber on the popped value
ToNumberResult(v) == to_number(v)

\* Instruction::Not on the popped value
NotResult(v) == Ok(Bool(~ is_truthy(v)))

\* Instruction::Add on the popped values: b was the top, a was below it
AddResult(a, b) ==
    IF IsNumber(a) /\ IsNumber(b) THEN Ok(NumAdd(a, b))
    ELSE IF IsString(a)
         THEN LET s2 == to_string(b)
              IN  IF s2.ok THEN Ok(String(a.s \o s2.val)) ELSE s2
    ELSE IF IsString(b)
         THEN LET s2 == to_string(a)
              IN  IF s2.ok THEN Ok(String(b.s \o s2.val)) ELSE s2
    ELSE Err(ErrAdd)

\* Subtract with its operands taken in the order they were popped
SubtractResultSwapped(a, b) ==
    IF IsNumber(a) /\ IsNumber(b) THEN Ok(NumSub(b, a)) ELSE Err(ErrSubtract)

\* Instruction::Subtract
SubtractResult(a, b) ==
    IF IsNumber(a) /\ IsNumber(b) THEN Ok(NumSub(a, b)) ELSE Err(ErrSubtract)

\* Instruction::Multiply
MultiplyResult(a, b) ==
    IF IsNumber(a) /\ IsNumber(b) THEN Ok(NumMul(a, b)) ELSE Err(ErrMultiply)

\* Divide without its test of the divisor: a zero divisor yields a result
DivideResultUnchecked(a, b) ==
    IF IsNumber(a) /\ IsNumber(b)
    THEN IF NumIsZero(b) THEN Ok(b) ELSE Ok(NumDiv(a, b))
    ELSE Err(ErrDivide)

\* Instruction::Divide
DivideResult(a, b) ==
    IF IsNumber(a) /\ IsNumber(b)
    THEN IF NumIsZero(b) THEN Err(ErrDivideByZero) ELSE Ok(NumDiv(a, b))
    ELSE Err(ErrDivide)

\* Instruction::Equal, Instruction::NotEqual
EqualResult(a, b) == Ok(Bool(is_equal_to(a, b)))
NotEqualResult(a, b) == Ok(Bool(~ is_equal_to(a, b)))

\* What a.is_greater_than(&b) can do.  The handlers use its result as a bool,
\* so on operands it does not order it returns false or it panics.
Returned(x) == [panic |-> FALSE, val |-> x]
Panicked == [panic |-> TRUE, val |-> FALSE]
GreaterThan(a, b) ==
    IF Comparable(a, b) THEN {Returned(is_greater_than(a, b))}
    ELSE {Returned(FALSE), Panicked}

\* Instruction::Greater
GreaterResult(a, b) == GreaterThan(a, b)
\* Instruction::Less
LessResult(a, b) == GreaterThan(b, a)
\* Instruction::GreaterEqual: || does not evaluate its right side after true
GreaterEqualResult(a, b) ==
    IF is_equal_to(a, b) THEN {Returned(TRUE)} ELSE GreaterThan(a, b)
\* Instruction::LessEqual
LessEqualResult(a, b) ==
    IF is_equal_to(a, b) THEN {Returned(TRUE)} ELSE GreaterThan(b, a)

-----------------------------------------------------------------------------
(* The handlers of VM::run.  vm is the VM after next_instr, ins the         *)
(* instruction fetched.                                                     *)

\* push the result r of an operator, or return its error
Finish(vm, r) == IF r.ok THEN Push(vm, r.val) ELSE Fail(vm, r.err)

\* one pop_stack, then K(vm, popped value)
Pop1(vm, K(_, _)) ==
    IF CanPop(vm) THEN K(Popped(vm), Top(vm)) ELSE {Panic(vm)}

\* let b = pop_stack(); let a = pop_stack(); then K(vm, a, b)
Pop2(vm, K(_, _, _)) ==
    IF Len(vm.stack) >= 2
    THEN K(Popped(Popped(vm)), Top(Popped(vm)), Top(vm))
    ELSE {Panic([vm EXCEPT !.stack = <<>>])}

FinishCompare(vm, o) == IF o.panic THEN Panic(vm) ELSE Push(vm, Bool(o.val))

DoPushConstant(vm, ins) ==
    IF has_const(CurFn(vm), ins.a)
    THEN {Push(vm, get_const(CurFn(vm), ins.a))}
    ELSE {Panic(vm)}

DoPushTrue(vm, ins) == {Push(vm, Bool(TRUE))}
DoPushFalse(vm, ins) == {Push(vm, Bool(FALSE))}
DoPushNull(vm, ins) == {Push(vm, Null)}

DoNegate(vm, ins) == Pop1(vm, LAMBDA m, v : {Finish(m, NegateResult(v))})
DoToNumber(vm, ins) == Pop1(vm, LAMBDA m, v : {Finish(m, ToNumberResult(v))})
DoNot(vm, ins) == Pop1(vm, LAMBDA m, v : {Finish(m, NotResult(v))})

DoAdd(vm, ins) == Pop2(vm, LAMBDA m, a, b : {Finish(m, AddResult(a, b))})
DoSubtract(vm, ins) == Pop2(vm, LAMBDA m, a, b : {Finish(m, SubtractResult(a, b))})
DoMultiply(vm, ins) == Pop2(vm, LAMBDA m, a, b : {Finish(m, MultiplyResult(a, b))})
DoDivide(vm, ins) == Pop2(vm, LAMBDA m, a, b : {Finish(m, DivideResult(a, b))})
DoEqual(vm, ins) == Pop2(vm, LAMBDA m, a, b : {Finish(m, EqualResult(a, b))})
DoNotEqual(vm, ins) == Pop2(vm, LAMBDA m, a, b : {Finish(m, NotEqualResult(a, b))})

DoGreaterEqual(vm, ins) ==
    Pop2(vm, LAMBDA m, a, b : {FinishCompare(m, o) : o \in GreaterEqualResult(a, b)})
DoLessEqual(vm, ins) ==
    Pop2(vm, LAMBDA m, a, b : {FinishCompare(m, o) : o \in LessEqualResult(a, b)})
DoGreater(vm, ins) ==
    Pop2(vm, LAMBDA m, a, b : {FinishCompare(m, o) : o \in GreaterResult(a, b)})
DoLess(vm, ins) ==
    Pop2(vm, LAMBDA m, a, b : {FinishCompare(m, o) : o \in LessResult(a, b)})

\* the pieces writeln!(.., "[{}] {}", line_no, val) hands to the writer one by one
TracePieces(line_no, text) ==
    <<(<<"[">>), Digits(line_no), (<<"]", " ">>), text, (<<"\n">>)>>

\* the line Trace writes: "[<line>] <text>" and the end of the line
TraceLine(line_no, text) ==
    <<"[">> \o Digits(line_no) \o <<"]", " ">> \o text \o <<"\n">>

\* BufWriter::flush_buf: the buffer is written out
Flushed(vm) == [vm EXCEPT !.stdout = @ \o vm.stdout_buf, !.stdout_buf = <<>>]

\* BufWriter::write_all of one piece: a piece the buffer has no room for is
\* written after the buffer is written out, and a piece as long as the
\* buffer is written out itself
Written(vm, piece) ==
    LET room == IF Len(piece) > BUF_SIZE - Len(vm.stdout_buf) THEN Flushed(vm) ELSE vm
    IN  IF Len(piece) >= BUF_SIZE
        THEN [room EXCEPT !.stdout = @ \o piece]
        ELSE [room EXCEPT !.stdout_buf = @ \o piece]

RECURSIVE WrittenAll(_, _)
\* Write::write_fmt: the pieces in their order
WrittenAll(vm, pieces) ==
    IF pieces = <<>> THEN vm
    ELSE WrittenAll(Written(vm, Head(pieces)), Tail(pieces))

DoTrace(vm, ins) ==
    WithTop(vm, LAMBDA a :
        LET t == to_string(a)
            line_no == get_line_no(CurFn(vm), vm.frame.cur_instr)
        IN  IF t.ok THEN {WrittenAll(vm, TracePieces(line_no, t.val))}
            ELSE {WrittenAll(vm, TracePieces(line_no, <<>>))})

DoPop(vm, ins) == Pop1(vm, LAMBDA m, v : {m})

DoGetLocal(vm, ins) ==
    WithLocal(vm, ins.a, LAMBDA id :
        IF InStack(vm, id) THEN {Push(vm, get_stack(vm, id))} ELSE {Panic(vm)})

\* the UpValue object behind upvalues[i] of the active closure, if there is one
HasUpValue(vm, i) ==
    /\ i + 1 \in DOMAIN vm.frame.clsr.upvalues
    /\ HeapHas(vm.heap, vm.frame.clsr.upvalues[i + 1])
    /\ vm.heap[vm.frame.clsr.upvalues[i + 1]].type = "UpValue"
UpValueOf(vm, i) == vm.heap[vm.frame.clsr.upvalues[i + 1]]

\* Heap::get_val, Heap::set_val
HasVal(vm, id) == HeapHas(vm.heap, id) /\ vm.heap[id].type = "Value"
get_val(vm, id) == vm.heap[id].val
set_val(vm, id, v) == [vm EXCEPT !.heap[id] = ObjValue(v)]

DoGetUpValue(vm, ins) ==
    IF ~ HasUpValue(vm, ins.a) THEN {Panic(vm)}
    ELSE LET up == UpValueOf(vm, ins.a)
         IN  IF up.kind = "Stack"
             THEN IF InStack(vm, up.at) THEN {Push(vm, get_stack(vm, up.at))}
                  ELSE {Panic(vm)}
             ELSE IF HasVal(vm, up.at) THEN {Push(vm, get_val(vm, up.at))}
                  ELSE {Panic(vm)}

DoSetLocal(vm, ins) ==
    WithLocal(vm, ins.a, LAMBDA id :
        WithTop(vm, LAMBDA val :
            IF InStack(vm, id) THEN {set_stack(vm, id, val)} ELSE {Panic(vm)}))

DoSetUpValue(vm, ins) ==
    WithTop(vm, LAMBDA set_to :
        IF ~ HasUpValue(vm, ins.a) THEN {Panic(vm)}
        ELSE LET up == UpValueOf(vm, ins.a)
             IN  IF up.kind = "Stack"
                 THEN IF InStack(vm, up.at) THEN {set_stack(vm, up.at, set_to)}
                      ELSE {Panic(vm)}
                 ELSE IF HasVal(vm, up.at) THEN {set_val(vm, up.at, set_to)}
                      ELSE {Panic(vm)})

\* a Declare that stores the top without the pop
DoDeclareKeeping(vm, ins) ==
    WithLocal(vm, ins.a, LAMBDA id :
        WithTop(vm, LAMBDA val :
            IF InStack(vm, id) THEN {set_stack(vm, id, val)} ELSE {Panic(vm)}))

DoDeclare(vm, ins) ==
    WithLocal(vm, ins.a, LAMBDA id :
        Pop1(vm, LAMBDA m, val :
            IF InStack(m, id) THEN {set_stack(m, id, val)} ELSE {Panic(m)}))

\* a jump that sets the pc to the delta
JumpedTo(vm, jump_count) == [vm EXCEPT !.frame.cur_instr = jump_count]

\* self.frame.cur_instr += jump_count
Jumped(vm, jump_count) == [vm EXCEPT !.frame.cur_instr = @ + jump_count]

\* a JumpIfFalsy that pops the value it inspects
DoJumpIfFalsyPopping(vm, ins) ==
    Pop1(vm, LAMBDA m, val :
        IF ~ is_truthy(val) THEN {Jumped(m, ins.a)} ELSE {m})

DoJumpIfFalsy(vm, ins) ==
    WithTop(vm, LAMBDA val :
        IF ~ is_truthy(val) THEN {Jumped(vm, ins.a)} ELSE {vm})

DoPopAndJumpIfFalsy(vm, ins) ==
    Pop1(vm, LAMBDA m, val :
        IF ~ is_truthy(val) THEN {Jumped(m, ins.a)} ELSE {m})

DoJumpIfTruthy(vm, ins) ==
    WithTop(vm, LAMBDA val :
        IF is_truthy(val) THEN {Jumped(vm, ins.a)} ELSE {vm})

DoJump(vm, ins) == {Jumped(vm, ins.a)}

Uninits(n) == [i \in 1..n |-> Uninitialized]

DoReserve(vm, ins) == {[vm EXCEPT !.stack = @ \o Uninits(ins.a)]}

-----------------------------------------------------------------------------
(* Calls, closures, upvalues *)

\* the index of the callee without the arguments counted
FuncPosAtTop(vm, arg_count) == U16Sub(AsU16(Len(vm.stack)), 1)

\* the u16 index FnCall computes for the callee
FuncPos(vm, arg_count) == U16Sub(AsU16(U16Sub(AsU16(Len(vm.stack)), 1).wrapped), arg_count)
FuncPosOverflow(vm, arg_count) ==
    U16Sub(AsU16(Len(vm.stack)), 1).overflow \/ FuncPos(vm, arg_count).overflow

\* FnCall once funcpos is known
CallAt(vm, funcpos) ==
    IF ~ InStack(vm, funcpos) THEN {Panic(vm)}
    ELSE LET clsr == get_stack(vm, funcpos)
         IN  IF clsr.tag = "Heap"
             THEN IF ~ HeapHas(vm.heap, clsr.id) THEN {Panic(vm)}
                  ELSE IF vm.heap[clsr.id].type = "Closure"
                  THEN LET obj == vm.heap[clsr.id]
                           new_frame == CallFrame(Closure(obj.func, obj.upvalues), funcpos)
                       IN  {[vm EXCEPT !.callstack = Append(@, vm.frame),
                                       !.frame = new_frame]}
                  ELSE {Fail(vm, ErrNotCallable)}
             ELSE {vm}

DoFnCall(vm, ins) ==
    (IF FuncPosOverflow(vm, ins.a) THEN {Panic(vm)} ELSE {})
        \cup CallAt(vm, FuncPos(vm, ins.a).wrapped)

\* the builds of the program: with the overflow checks of the integer
\* arithmetic, which panic, or without them, where the result wraps
Builds == BOOLEAN

\* a capture that takes the index of a local for its absolute slot
capture_upvalueRelative(vm, upvalueid, checks) ==
    IF upvalueid.is_local
    THEN [ok |-> TRUE, id |-> NewId(vm.heap),
          vm |-> [vm EXCEPT !.heap = HeapAlloc(@, UpValueStack(upvalueid.id))]]
    ELSE IF upvalueid.id + 1 \in DOMAIN vm.frame.clsr.upvalues
         THEN [ok |-> TRUE, id |-> vm.frame.clsr.upvalues[upvalueid.id + 1], vm |-> vm]
         ELSE [ok |-> FALSE, id |-> 0, vm |-> vm]

\* VM::capture_upvalue in a build with or without overflow checks: [ok, vm, id];
\* not ok when the sum overflows in a build that checks, or expect("") panics
capture_upvalue(vm, upvalueid, checks) ==
    IF upvalueid.is_local
    THEN LET slot == U16Add(AsU16(vm.frame.stack_base), upvalueid.id)
         IN  IF slot.overflow /\ checks THEN [ok |-> FALSE, id |-> 0, vm |-> vm]
             ELSE [ok |-> TRUE, id |-> NewId(vm.heap),
                   vm |-> [vm EXCEPT !.heap = HeapAlloc(@, UpValueStack(slot.wrapped))]]
    ELSE IF upvalueid.id + 1 \in DOMAIN vm.frame.clsr.upvalues
         THEN [ok |-> TRUE, id |-> vm.frame.clsr.upvalues[upvalueid.id + 1], vm |-> vm]
         ELSE [ok |-> FALSE, id |-> 0, vm |-> vm]

\* self.open_upvalues.push(*r)
Recorded(vm, upvalueid, id) == [vm EXCEPT !.open_upvalues = Append(@, id)]

RECURSIVE CaptureAll(_, _, _, _)
\* the loop of Closure over its descriptors: [ok, vm, upvalues].  The
\* descriptors are gone through in their order, the first half before the
\* second, and the loop ends at the first one that panics, with the upvalues
\* of the descriptors before it allocated and recorded.
CaptureAll(vm, upvalueids, upvalues, checks) ==
    IF upvalueids = <<>> THEN [ok |-> TRUE, vm |-> vm, upvalues |-> upvalues]
    ELSE IF Len(upvalueids) = 1
    THEN LET c == capture_upvalue(vm, Head(upvalueids), checks)
         IN  IF ~ c.ok THEN [ok |-> FALSE, vm |-> c.vm, upvalues |-> upvalues]
             ELSE [ok |-> TRUE, vm |-> Recorded(c.vm, Head(upvalueids), c.id),
                   upvalues |-> Append(upvalues, c.id)]
    ELSE LET half == Len(upvalueids) \div 2
             first == CaptureAll(vm, SubSeq(upvalueids, 1, half), upvalues, checks)
         IN  IF ~ first.ok THEN first
             ELSE CaptureAll(first.vm, SubSeq(upvalueids, half + 1, Len(upvalueids)),
                             first.upvalues, checks)

\* Closure once the destination index id is known
ClosureAt(vm, ins, id, checks) ==
    IF ~ has_const(CurFn(vm), ins.b) THEN Panic(vm)
    ELSE LET func == get_const(CurFn(vm), ins.b)
         IN  IF func.tag # "Obj" THEN Panic(vm)
             ELSE LET func_id == NewId(vm.heap)
                      vm1 == [vm EXCEPT !.heap = HeapAlloc(@, ObjFunction(func.fn))]
                      c == CaptureAll(vm1, ins.upv, <<>>, checks)
                      clsr_id == NewId(c.vm.heap)
                      vm2 == [c.vm EXCEPT !.heap =
                                 HeapAlloc(@, ObjClosure(func_id, c.upvalues))]
                  IN  IF ~ c.ok THEN Panic(c.vm)
                      ELSE IF InStack(vm2, id)
                           THEN set_stack(vm2, id, HeapRef(clsr_id))
                           ELSE Panic(vm2)

\* Instruction::Closure in one build
ClosureIn(vm, ins, checks) ==
    LET id == U16Add(ins.a, AsU16(vm.frame.stack_base))
    IN  IF id.overflow /\ checks THEN Panic(vm)
        ELSE ClosureAt(vm, ins, id.wrapped, checks)

DoClosure(vm, ins) == {ClosureIn(vm, ins, checks) : checks \in Builds}

Range(f) == {f[i] : i \in DOMAIN f}

\* an entry of open_upvalues that get_upvalue_mut panics on: no object of the
\* heap, or one that is no upvalue
NoUpValue(vm, upv) == ~ (HeapHas(vm.heap, upv) /\ vm.heap[upv].type = "UpValue")

\* the inner loop of close_upvalues goes through the entries of open_upvalues
\* before index Stop: all of them, or those before the first it panics on
Stop(vm) ==
    LET bad == {i \in DOMAIN vm.open_upvalues : NoUpValue(vm, vm.open_upvalues[i])}
    IN  IF bad = {} THEN Len(vm.open_upvalues) + 1
        ELSE CHOOSE i \in bad : \A j \in bad : i <= j

\* an inner loop that closes every upvalue of the list
ToCloseEvery(vm, slot) ==
    {vm.open_upvalues[i] : i \in 1..(Stop(vm) - 1)}

\* the open upvalues the inner loop of close_upvalues closes for slot
ToClose(vm, slot) ==
    {upv \in {vm.open_upvalues[i] : i \in 1..(Stop(vm) - 1)} :
        /\ vm.heap[upv].kind = "Stack"
        /\ vm.heap[upv].at = slot}

\* UpValue::close on each of the upvalues in ids
Closed(h, ids, on_heap_id) ==
    [i \in DOMAIN h |-> IF i \in ids THEN ObjUpValue("Heap", on_heap_id) ELSE h[i]]

\* one round of the loop of close_upvalues, for captured slot id: the sum, the
\* read of the slot, alloc_val, then the inner loop; a panic leaves what was
\* done before it
CloseSlot(vm, id, checks) ==
    LET slot == U16Add(AsU16(vm.frame.stack_base), id)
    IN  IF slot.overflow /\ checks THEN Panic(vm)
        ELSE IF ~ InStack(vm, slot.wrapped) THEN Panic(vm)
        ELSE LET cur_value == get_stack(vm, slot.wrapped)
                 on_heap_id == NewId(vm.heap)
                 vm1 == [vm EXCEPT !.heap = HeapAlloc(@, ObjValue(cur_value))]
                 vm2 == [vm1 EXCEPT !.heap =
                            Closed(@, ToClose(vm1, slot.wrapped), on_heap_id)]
             IN  IF Stop(vm1) <= Len(vm1.open_upvalues) THEN Panic(vm2) ELSE vm2

RECURSIVE CloseAll(_, _, _)
CloseAll(vm, captured, checks) ==
    IF captured = <<>> \/ vm.status = "panic" THEN vm
    ELSE CloseAll(CloseSlot(vm, Head(captured), checks), Tail(captured), checks)

\* VM::close_upvalues
close_upvalues(vm, checks) == CloseAll(vm, CurFn(vm).captured, checks)

-----------------------------------------------------------------------------
(* The collector *)

\* the heap ids a Value holds
ValueRefs(v) == IF v.tag = "Heap" THEN {v.id} ELSE {}

\* the heap ids an object holds
ObjRefs(obj) ==
    CASE obj.type = "Closure" -> {obj.func} \cup Range(obj.upvalues)
      [] obj.type = "UpValue" -> IF obj.kind = "Heap" THEN {obj.at} ELSE {}
      [] obj.type = "Value" -> ValueRefs(obj.val)
      [] obj.type = "Function" ->
            UNION {ValueRefs(fns[obj.fn].consts[i]) : i \in DOMAIN fns[obj.fn].consts}
      [] OTHER -> {}

FrameRefs(f) == {f.clsr.func} \cup Range(f.clsr.upvalues)

\* the roots of a collection
Roots(vm) ==
    UNION {ValueRefs(vm.stack[i]) : i \in DOMAIN vm.stack}
        \cup FrameRefs(vm.frame)
        \cup UNION {FrameRefs(vm.callstack[i]) : i \in DOMAIN vm.callstack}
        \cup Range(vm.open_upvalues)

RECURSIVE Marked(_, _)
\* the ids reachable from the set ids
Marked(h, ids) ==
    LET more == ids \cup UNION {ObjRefs(h[i]) : i \in ids \cap DOMAIN h}
    IN  IF more = ids THEN ids ELSE Marked(h, more)

\* GC::collect_garbage: the objects not marked are freed
collect_garbage(vm) ==
    LET live == Marked(vm.heap, Roots(vm))
    IN  [vm EXCEPT !.heap = [i \in DOMAIN @ |-> IF i \in live THEN @[i] ELSE ObjFree]]

\* (heap_len as f32 * GC_THR_GROW) as u32, on the digits of heap_len and of
\* the result: the length and the product are rounded to f32, the cast drops
\* the fraction and saturates
GrownThreshold(heap_len) ==
    TruncNat(FloatMul(F32,
                      RoundFloat(F32, FALSE, heap_len, 0),
                      RoundRatio(F32, FALSE, Nat2Big(GrowNum), Nat2Big(GrowDen), 0)))

\* VM::gc_point
gc_point(vm) ==
    IF BigLess(vm.gc_thr, Nat2Big(HeapLen(vm.heap)))
    THEN LET heap_len == Nat2Big(HeapLen(vm.heap))
         IN  [collect_garbage(vm) EXCEPT !.gc_thr = GrownThreshold(heap_len)]
    ELSE vm

-----------------------------------------------------------------------------
(* Return *)

\* Vec::truncate
truncate(s, n) == IF Len(s) > n THEN SubSeq(s, 1, n) ELSE s

\* the frame is left without the truncation of the stack
LeftUntruncated(vm, saved, val) ==
    [vm EXCEPT !.stack = Append(@, val),
               !.open_upvalues = truncate(@, 0),
               !.frame = saved]

\* the frame is left: self.stack.truncate(stack_base), self.open_upvalues.truncate(0),
\* self.frame = frame, self.stack.push(val)
Left(vm, saved, val) ==
    [vm EXCEPT !.stack = Append(truncate(@, vm.frame.stack_base), val),
               !.open_upvalues = truncate(@, 0),
               !.frame = saved]

\* Instruction::Return in one build
ReturnIn(vm, ins, checks) ==
    IF vm.callstack = <<>> THEN [vm EXCEPT !.status = "ok"]
    ELSE LET saved == vm.callstack[Len(vm.callstack)]
             vm1 == [vm EXCEPT !.callstack = SubSeq(@, 1, Len(@) - 1)]
         IN  IF ~ CanPop(vm1) THEN Panic(vm1)
             ELSE LET val == Top(vm1)
                      vm2 == close_upvalues(Popped(vm1), checks)
                  IN  IF vm2.status = "panic" THEN vm2
                      ELSE gc_point(Left(vm2, saved, val))

DoReturn(vm, ins) == {ReturnIn(vm, ins, checks) : checks \in Builds}

-----------------------------------------------------------------------------
(* The programs the VM is loaded with.  fns[1] is the chunk given to        *)
(* VM::new; a constant Obj(k) is the function fns[k].                       *)

\* the line map: instruction 0 is on source line 7, each later one a line further
Lines(code) == [i \in DOMAIN code |-> i + 6]
Fn(code, consts, captured) == Function(code, consts, Lines(code), captured)

\* tests::test_arithmetic: 5 - 5 / 2.5 + 1 * 2
ArithmeticProgram ==
    <<Fn(<<I1("PushConstant", 0), I1("PushConstant", 1), I1("PushConstant", 2),
           I0("Divide"), I0("Subtract"),
           I1("PushConstant", 3), I1("PushConstant", 4),
           I0("Multiply"), I0("Add"), I0("Return")>>,
         <<Int2Num(5), Int2Num(5), Number(5, 2), Int2Num(1), Int2Num(2)>>,
         <<>>)>>

\* tests::test_kwexpr
KwexprProgram ==
    <<Function(<<I1("PushConstant", 0), I0("Trace"), I0("Return")>>, <<Int2Num(5)>>,
               <<0, 0, 0>>, <<>>)>>

\* tests::test_negate
NegateProgram ==
    <<Fn(<<I1("PushConstant", 0), I0("Negate"), I0("Return")>>, <<Int2Num(5)>>, <<>>)>>

\* the constants of the operand programs; the last one is the function fns[2],
\* the one before it a heap reference to an object that is no closure
TextA == <<"a">>
TextB == <<"b">>
Text7 == <<"7">>
OperandConsts ==
    [i \in 1..(MaxNum + 1) |-> Int2Num(i - 1)]
        \o <<Int2Num(5), Number(5, 2), Number(1, 10), Number(3, 10),
             String(<<>>), String(TextA), String(TextB), String(Text7),
             HeapRef(1), Obj(2)>>

\* the instructions that push one operand: a constant that is a value, a
\* literal, the closure in local 0, the Uninitialized in local 1
Producers ==
    {I1("PushConstant", i - 1) : i \in 1..(Len(OperandConsts) - 1)}
        \cup {I0("PushTrue"), I0("PushFalse"), I0("PushNull"),
              I1("GetLocal", 0), I1("GetLocal", 1)}

BinaryOps == {"Add", "Subtract", "Multiply", "Divide", "Equal", "NotEqual",
              "GreaterEqual", "LessEqual", "Greater", "Less"}
UnaryOps == {"Negate", "ToNumber", "Not", "Pop"}

\* a function without locals that returns null
NullFn == Fn(<<I0("PushNull"), I0("Return")>>, <<>>, <<>>)

OperandRoot(body) ==
    Fn(<<I1("Reserve", 2),
         Instr("Closure", 0, Len(OperandConsts) - 1, <<>>)>>
           \o body \o <<I0("Trace"), I0("Return")>>,
       OperandConsts, <<>>)

\* a op b, for every two operands and every binary operator
BinaryPrograms ==
    {<<OperandRoot(<<pa, pb, I0(op)>>), NullFn>> :
        pa \in Producers, pb \in Producers, op \in BinaryOps}

\* op a, for every operand and every unary operator
UnaryPrograms ==
    {<<OperandRoot(<<pa, I0(op)>>), NullFn>> : pa \in Producers, op \in UnaryOps}
        \cup {<<OperandRoot(<<pa, I1("SetLocal", 1)>>), NullFn>> : pa \in Producers}

\* a(), for every operand a, and a(b) with one argument
CallPrograms ==
    {<<OperandRoot(<<pa, I1("FnCall", 0), I0("PushTrue")>>), NullFn>> : pa \in Producers}
        \cup {<<OperandRoot(<<pa, pb, I1("FnCall", 1), I0("PushTrue")>>), NullFn>> :
                pa \in Producers, pb \in {I0("PushNull")}}
        \cup {<<OperandRoot(<<I1("FnCall", 3)>>), NullFn>>}

\* the variants of Instruction that the match of run has no arm for
Placeholders == {"JumpPlaceholder", "ReservePlaceholder"}
\* a placeholder left in a chunk, first or after a push
PlaceholderPrograms ==
    {<<Fn(pre \o <<I0(op), I0("Return")>>, <<>>, <<>>)>> :
        pre \in {<<>>, <<I0("PushTrue")>>}, op \in Placeholders}

\* conditional and unconditional jumps over one or two pushes
JumpOps == {"JumpIfFalsy", "PopAndJumpIfFalsy", "JumpIfTruthy", "Jump"}
JumpPrograms ==
    {<<Fn(<<I0("PushNull"), cond, I1(op, d), I0("PushTrue"), I0("PushFalse"),
            I0("Trace"), I0("Return")>>,
          <<Int2Num(0)>>, <<>>)>> :
        cond \in {I0("PushTrue"), I0("PushFalse"), I0("PushNull"), I1("PushConstant", 0)},
        op \in JumpOps, d \in 0..MaxJump}

\* a && b with a = false and a b that fails when run: the jump skips it
ShortCircuitProgram ==
    <<Fn(<<I0("PushFalse"), I1("JumpIfFalsy", 4), I0("Pop"),
           I0("PushNull"), I0("PushNull"), I0("Subtract"), I0("Return")>>,
         <<>>, <<>>)>>

\* a function that returns its upvalue 0
ReaderFn == Fn(<<I1("GetUpValue", 0), I0("Return")>>, <<>>, <<>>)

\* a function that adds 1 to its upvalue 0
WriterFn ==
    Fn(<<I1("GetUpValue", 0), I1("PushConstant", 0), I0("Add"),
         I1("SetUpValue", 0), I0("Return")>>,
       <<Int2Num(1)>>, <<>>)

\* call the closure in local 2 and drop its result
CallLocal2 == <<I1("GetLocal", 2), I1("FnCall", 0), I0("Pop")>>

\* Closure capture: outer declares x = 10 in its local 1 and returns an inner
\* closure that returns x; the root calls outer, then inner.  With between,
\* outer calls inner once before it returns.
CaptureProgram(between) ==
    <<Fn(<<I1("Reserve", 2), Instr("Closure", 0, 0, <<>>),
           I1("GetLocal", 0), I1("FnCall", 0), I1("Declare", 1),
           I1("GetLocal", 1), I1("FnCall", 0), I0("Trace"), I0("Return")>>,
         <<Obj(2)>>, <<>>),
      Fn(<<I1("Reserve", 2), I1("PushConstant", 0), I1("Declare", 1),
           Instr("Closure", 2, 1, <<Local(1)>>)>>
             \o (IF between THEN CallLocal2 ELSE <<>>)
             \o <<I1("GetLocal", 2), I0("Return")>>,
         <<Int2Num(10), Obj(3)>>, <<1>>),
      ReaderFn>>

\* Shared upvalue: outer declares x = 0 and hands a writer and a reader of x
\* to the root through the root's locals 1 and 2; the root calls the writer
\* twice, then the reader.  With between, outer calls the writer once before
\* it creates the reader.
SharedProgram(between) ==
    <<Fn(<<I1("Reserve", 3), Instr("Closure", 0, 0, <<Local(1), Local(2)>>),
           I1("GetLocal", 0), I1("FnCall", 0), I0("Pop"),
           I1("GetLocal", 1), I1("FnCall", 0), I0("Pop"),
           I1("GetLocal", 1), I1("FnCall", 0), I0("Pop"),
           I1("GetLocal", 2), I1("FnCall", 0), I0("Trace"), I0("Return")>>,
         <<Obj(2)>>, <<1, 2>>),
      Fn(<<I1("Reserve", 2), I1("PushConstant", 0), I1("Declare", 1),
           Instr("Closure", 2, 1, <<Local(1)>>),
           I1("GetLocal", 2), I1("SetUpValue", 0), I0("Pop")>>
             \o (IF between THEN CallLocal2 ELSE <<>>)
             \o <<Instr("Closure", 2, 2, <<Local(1)>>),
                  I1("GetLocal", 2), I1("SetUpValue", 1), I0("Pop"),
                  I0("PushNull"), I0("Return")>>,
         <<Int2Num(0), Obj(3), Obj(4)>>, <<1>>),
      WriterFn,
      ReaderFn>>

\* Nested capture: outer declares x = 10 and returns mid, which captures x;
\* mid returns inner, which takes x over from mid; the root calls all three.
NestedProgram ==
    <<Fn(<<I1("Reserve", 1), Instr("Closure", 0, 0, <<>>),
           I1("GetLocal", 0), I1("FnCall", 0), I1("FnCall", 0), I1("FnCall", 0),
           I0("Trace"), I0("Return")>>,
         <<Obj(2)>>, <<>>),
      Fn(<<I1("Reserve", 2), I1("PushConstant", 0), I1("Declare", 1),
           Instr("Closure", 2, 1, <<Local(1)>>), I1("GetLocal", 2), I0("Return")>>,
         <<Int2Num(10), Obj(3)>>, <<1>>),
      Fn(<<I1("Reserve", 1), Instr("Closure", 1, 0, <<Outer(0)>>),
           I1("GetLocal", 1), I0("Return")>>,
         <<Obj(4)>>, <<>>),
      ReaderFn>>

\* Recapture: as the nested capture, but mid declares y = 20 in its own local 1,
\* the absolute slot x had in outer, and inner captures both x and y and
\* returns x + y.
RecaptureProgram ==
    <<Fn(<<I1("Reserve", 1), Instr("Closure", 0, 0, <<>>),
           I1("GetLocal", 0), I1("FnCall", 0), I1("FnCall", 0), I1("FnCall", 0),
           I0("Trace"), I0("Return")>>,
         <<Obj(2)>>, <<>>),
      Fn(<<I1("Reserve", 2), I1("PushConstant", 0), I1("Declare", 1),
           Instr("Closure", 2, 1, <<Local(1)>>), I1("GetLocal", 2), I0("Return")>>,
         <<Int2Num(10), Obj(3)>>, <<1>>),
      Fn(<<I1("Reserve", 2), I1("PushConstant", 0), I1("Declare", 1),
           Instr("Closure", 2, 1, <<Outer(0), Local(1)>>),
           I1("GetLocal", 2), I0("Return")>>,
         <<Int2Num(20), Obj(4)>>, <<1>>),
      Fn(<<I1("GetUpValue", 0), I1("GetUpValue", 1), I0("Add"), I0("Return")>>,
         <<>>, <<>>)>>

\* a callee that pops its own slot 0 and a value of its caller before it returns
PopBelowProgram ==
    <<Fn(<<I1("Reserve", 1), Instr("Closure", 0, 0, <<>>),
           I1("GetLocal", 0), I1("FnCall", 0), I0("Return")>>,
         <<Obj(2)>>, <<>>),
      Fn(<<I0("Pop"), I0("Pop"), I0("PushTrue"), I0("Return")>>, <<>>, <<>>)>>

\* a chunk that ends without a Return
NoReturnProgram == <<Fn(<<I0("PushNull")>>, <<>>, <<>>)>>

\* Collection: the root overwrites its local 1 with GcClosures closures, each
\* with GcDescriptors upvalues on local 1, until the heap is above
\* GC_THR_START; the Return of a callee is then a GC point that collects.
GcProgram ==
    <<Fn(<<I1("Reserve", 2), Instr("Closure", 0, 0, <<>>)>>
            \o [i \in 1..GcClosures |->
                   Instr("Closure", 1, 1, [k \in 1..GcDescriptors |-> Local(1)])]
            \o <<I1("GetLocal", 0), I1("FnCall", 0), I0("Trace"), I0("Return")>>,
         <<Obj(2), Obj(3)>>, <<>>),
      NullFn,
      ReaderFn>>

Programs ==
    {ArithmeticProgram, KwexprProgram, NegateProgram, ShortCircuitProgram,
     NestedProgram, RecaptureProgram, PopBelowProgram, NoReturnProgram, GcProgram}
        \cup {CaptureProgram(b) : b \in BOOLEAN}
        \cup {SharedProgram(b) : b \in BOOLEAN}
        \cup BinaryPrograms \cup UnaryPrograms \cup CallPrograms \cup JumpPrograms
        \cup PlaceholderPrograms

-----------------------------------------------------------------------------
(* The state machine *)

\* no probe has been made
NoProbe == [kind |-> "none", len |-> 0, arg |-> 0, done |-> FALSE, panic |-> FALSE, read |-> 0]

\* VM::new: the chunk is loaded into the heap as function 1 and wrapped in the
\* closure of the root frame
InitVM ==
    [frame |-> CallFrame(Closure(1, <<>>), 0), callstack |-> <<>>,
     open_upvalues |-> <<>>, stack |-> <<>>, heap |-> <<ObjFunction(1)>>,
     gc_thr |-> Nat2Big(GC_THR_START), stdout_buf |-> <<>>, stdout |-> <<>>,
     status |-> "running", err |-> ""]

Init ==
    /\ fns \in Programs
    /\ frame = InitVM.frame
    /\ callstack = InitVM.callstack
    /\ open_upvalues = InitVM.open_upvalues
    /\ stack = InitVM.stack
    /\ heap = InitVM.heap
    /\ gc_thr = InitVM.gc_thr
    /\ stdout_buf = InitVM.stdout_buf
    /\ stdout = InitVM.stdout
    /\ status = InitVM.status
    /\ err = InitVM.err
    /\ dispatched = [instr |-> None, vm |-> InitVM]
    /\ below_base = FALSE
    /\ probe = NoProbe

\* the instruction next_instr returns
Fetched == try_get_instr(CurFn(VM), frame.cur_instr)

Install(r) ==
    /\ frame' = r.frame
    /\ callstack' = r.callstack
    /\ open_upvalues' = r.open_upvalues
    /\ stack' = r.stack
    /\ heap' = r.heap
    /\ gc_thr' = r.gc_thr
    /\ stdout_buf' = r.stdout_buf
    /\ stdout' = r.stdout
    /\ status' = r.status
    /\ err' = r.err
    /\ dispatched' = [instr |-> Fetched, vm |-> VM]
    /\ below_base' = (below_base \/ Len(r.stack) < r.frame.stack_base)
    /\ probe' = probe
    /\ fns' = fns

\* the loop of run fetches an instruction op
Dispatch(op) == status = "running" /\ Fetched.op = op

\* the variants of Instruction that an arm of the match of run names
Handled ==
    {"Return", "PushConstant", "PushTrue", "PushFalse", "PushNull",
     "Negate", "ToNumber", "Not", "Add", "Subtract", "Multiply", "Divide",
     "Equal", "NotEqual", "GreaterEqual", "LessEqual", "Greater", "Less",
     "Trace", "Pop", "GetLocal", "GetUpValue", "SetLocal", "SetUpValue", "Declare",
     "JumpIfFalsy", "PopAndJumpIfFalsy", "JumpIfTruthy", "Jump",
     "FnCall", "Reserve", "Closure"}

\* next_instr().unwrap() on a pc past the end of the chunk
NoInstr ==
    /\ status = "running"
    /\ Fetched = None
    /\ Install(Panic(next_instr(VM)))

Return ==
    /\ Dispatch("Return")
    /\ \E r \in DoReturn(next_instr(VM), Fetched) : Install(r)
PushConstant ==
    /\ Dispatch("PushConstant")
    /\ \E r \in DoPushConstant(next_instr(VM), Fetched) : Install(r)
PushTrue ==
    /\ Dispatch("PushTrue")
    /\ \E r \in DoPushTrue(next_instr(VM), Fetched) : Install(r)
PushFalse ==
    /\ Dispatch("PushFalse")
    /\ \E r \in DoPushFalse(next_instr(VM), Fetched) : Install(r)
PushNull ==
    /\ Dispatch("PushNull")
    /\ \E r \in DoPushNull(next_instr(VM), Fetched) : Install(r)
Negate ==
    /\ Dispatch("Negate")
    /\ \E r \in DoNegate(next_instr(VM), Fetched) : Install(r)
ToNumber ==
    /\ Dispatch("ToNumber")
    /\ \E r \in DoToNumber(next_instr(VM), Fetched) : Install(r)
Not ==
    /\ Dispatch("Not")
    /\ \E r \in DoNot(next_instr(VM), Fetched) : Install(r)
Add ==
    /\ Dispatch("Add")
    /\ \E r \in DoAdd(next_instr(VM), Fetched) : Install(r)
Subtract ==
    /\ Dispatch("Subtract")
    /\ \E r \in DoSubtract(next_instr(VM), Fetched) : Install(r)
Multiply ==
    /\ Dispatch("Multiply")
    /\ \E r \in DoMultiply(next_instr(VM), Fetched) : Install(r)
Divide ==
    /\ Dispatch("Divide")
    /\ \E r \in DoDivide(next_instr(VM), Fetched) : Install(r)
Equal ==
    /\ Dispatch("Equal")
    /\ \E r \in DoEqual(next_instr(VM), Fetched) : Install(r)
NotEqual ==
    /\ Dispatch("NotEqual")
    /\ \E r \in DoNotEqual(next_instr(VM), Fetched) : Install(r)
GreaterEqual ==
    /\ Dispatch("GreaterEqual")
    /\ \E r \in DoGreaterEqual(next_instr(VM), Fetched) : Install(r)
LessEqual ==
    /\ Dispatch("LessEqual")
    /\ \E r \in DoLessEqual(next_instr(VM), Fetched) : Install(r)
Greater ==
    /\ Dispatch("Greater")
    /\ \E r \in DoGreater(next_instr(VM), Fetched) : Install(r)
Less ==
    /\ Dispatch("Less")
    /\ \E r \in DoLess(next_instr(VM), Fetched) : Install(r)
Trace ==
    /\ Dispatch("Trace")
    /\ \E r \in DoTrace(next_instr(VM), Fetched) : Install(r)
Pop ==
    /\ Dispatch("Pop")
    /\ \E r \in DoPop(next_instr(VM), Fetched) : Install(r)
GetLocal ==
    /\ Dispatch("GetLocal")
    /\ \E r \in DoGetLocal(next_instr(VM), Fetched) : Install(r)
GetUpValue ==
    /\ Dispatch("GetUpValue")
    /\ \E r \in DoGetUpValue(next_instr(VM), Fetched) : Install(r)
SetLocal ==
    /\ Dispatch("SetLocal")
    /\ \E r \in DoSetLocal(next_instr(VM), Fetched) : Install(r)
SetUpValue ==
    /\ Dispatch("SetUpValue")
    /\ \E r \in DoSetUpValue(next_instr(VM), Fetched) : Install(r)
Declare ==
    /\ Dispatch("Declare")
    /\ \E r \in DoDeclare(next_instr(VM), Fetched) : Install(r)
JumpIfFalsy ==
    /\ Dispatch("JumpIfFalsy")
    /\ \E r \in DoJumpIfFalsy(next_instr(VM), Fetched) : Install(r)
PopAndJumpIfFalsy ==
    /\ Dispatch("PopAndJumpIfFalsy")
    /\ \E r \in DoPopAndJumpIfFalsy(next_instr(VM), Fetched) : Install(r)
JumpIfTruthy ==
    /\ Dispatch("JumpIfTruthy")
    /\ \E r \in DoJumpIfTruthy(next_instr(VM), Fetched) : Install(r)
Jump ==
    /\ Dispatch("Jump")
    /\ \E r \in DoJump(next_instr(VM), Fetched) : Install(r)
FnCall ==
    /\ Dispatch("FnCall")
    /\ \E r \in DoFnCall(next_instr(VM), Fetched) : Install(r)
Reserve ==
    /\ Dispatch("Reserve")
    /\ \E r \in DoReserve(next_instr(VM), Fetched) : Install(r)
ClosureInstr ==
    /\ Dispatch("Closure")
    /\ \E r \in DoClosure(next_instr(VM), Fetched) : Install(r)
\* the last arm of the match, _ => unimplemented!(), takes every other variant
Unimplemented ==
    /\ status = "running"
    /\ Fetched # None
    /\ Fetched.op \notin Handled
    /\ Install(Panic(next_instr(VM)))

Next ==
    \/ NoInstr
    \/ Return \/ PushConstant \/ PushTrue \/ PushFalse \/ PushNull
    \/ Negate \/ ToNumber \/ Not
    \/ Add \/ Subtract \/ Multiply \/ Divide
    \/ Equal \/ NotEqual \/ GreaterEqual \/ LessEqual \/ Greater \/ Less
    \/ Trace \/ Pop
    \/ GetLocal \/ GetUpValue \/ SetLocal \/ SetUpValue \/ Declare
    \/ JumpIfFalsy \/ PopAndJumpIfFalsy \/ JumpIfTruthy \/ Jump
    \/ FnCall \/ Reserve \/ ClosureInstr
    \/ Unimplemented

Spec == Init /\ [][Next]_vars

-----------------------------------------------------------------------------
(* The claims.  dispatched holds the instruction of the last turn of the    *)
(* loop and the VM it was fetched in.                                       *)

Pre == dispatched.vm
After(op) == dispatched.instr.op = op
Running == status = "running"
PreLen == Len(Pre.stack)
\* the operands of a binary operator: right was the top, left was below it
Right == Pre.stack[PreLen]
Left_ == Pre.stack[PreLen - 1]
\* a Return of a frame that has a caller has run to its end
ReturnedFromCallee == After("Return") /\ Pre.callstack # <<>> /\ Running
\* the function of the frame that dispatched
PreFn == fns[Pre.heap[Pre.frame.clsr.func].fn]

\* the kind of an error message
ErrKind(msg) ==
    CASE msg \in {ErrAdd, ErrSubtract, ErrMultiply, ErrDivide} -> "TypeMismatch"
      [] msg \in {ErrToString, ErrToNumber} -> "TypeCoercion"
      [] msg = ErrDivideByZero -> "DivideByZero"
      [] msg = ErrNotCallable -> "NotCallable"
      [] OTHER -> "None"

IsOpenOn(obj, slot) == obj.type = "UpValue" /\ obj.kind = "Stack" /\ obj.at = slot

\* C1: when a frame with a caller returns, every upvalue that was Open on a
\* captured slot stack_base + s of that frame is Closed on a boxed cell that
\* holds the value the slot had at the Return.
C1_ReturnClosesCapturedSlots ==
    ReturnedFromCallee =>
        \A i \in DOMAIN Pre.heap : \A k \in DOMAIN PreFn.captured :
            LET slot == Pre.frame.stack_base + PreFn.captured[k]
            IN  IsOpenOn(Pre.heap[i], slot) =>
                    /\ heap[i].kind = "Heap"
                    /\ heap[heap[i].at] = ObjValue(Pre.stack[slot + 1])

\* C2: when a frame with a caller returns, any two upvalues that were Open on
\* the same slot of that frame reference one and the same boxed cell.
C2_AliasesShareOneCell ==
    ReturnedFromCallee =>
        \A i, j \in DOMAIN Pre.heap :
            (/\ i # j
             /\ Pre.heap[i].type = "UpValue" /\ Pre.heap[i].kind = "Stack"
             /\ Pre.heap[i].at >= Pre.frame.stack_base
             /\ IsOpenOn(Pre.heap[j], Pre.heap[i].at))
            => /\ heap[i].kind = "Heap"
               /\ heap[j].kind = "Heap"
               /\ heap[i].at = heap[j].at

\* the callee FnCall(argc) finds at stack position len - 1 - argc
HasCallee == After("FnCall") /\ PreLen - 1 - dispatched.instr.a >= 0
Callee == Pre.stack[PreLen - dispatched.instr.a]
IsClosureRef(vm, v) ==
    v.tag = "Heap" /\ HeapHas(vm.heap, v.id) /\ vm.heap[v.id].type = "Closure"

\* C3: FnCall on a callee that is no heap reference to a closure halts with
\* NotCallable and installs no frame.
C3_NotCallableHalts ==
    (HasCallee /\ ~ IsClosureRef(Pre, Callee)) =>
        /\ status = "err"
        /\ ErrKind(err) = "NotCallable"
        /\ callstack = Pre.callstack

\* what a Return of a frame with a caller leaves, but for the stack length
ReturnRestoresCaller ==
    /\ stack[Len(stack)] = Pre.stack[PreLen]
    /\ Len(callstack) = Len(Pre.callstack) - 1
    /\ frame = Pre.callstack[Len(Pre.callstack)]
    /\ get_clsr_fn(VM, frame.clsr).code[frame.cur_instr].op = "FnCall"

\* C4 as stated: after the Return of a frame with a caller the stack is
\* stack_base + 1 long, its top is the value returned, the call stack is one
\* shorter and the caller goes on after its FnCall.
C4_ReturnLeavesBasePlusOne ==
    ReturnedFromCallee =>
        /\ Len(stack) = Pre.frame.stack_base + 1
        /\ ReturnRestoresCaller

\* C4 as amended: the same for a frame whose stack at the Return is longer
\* than its stack_base; a frame that popped below its base keeps what it
\* left, with the value returned on top.
C4_ReturnLeavesBasePlusOneAboveBase ==
    ReturnedFromCallee =>
        /\ PreLen > Pre.frame.stack_base => Len(stack) = Pre.frame.stack_base + 1
        /\ PreLen <= Pre.frame.stack_base => Len(stack) = PreLen
        /\ ReturnRestoresCaller

\* a callee returned with locals above its base that the Return dropped
C4_Witness == ReturnedFromCallee /\ PreLen > Pre.frame.stack_base + 1

\* the text of a value
Text(v) == to_string(v).val

\* C5: Add with a String on either side pushes the text of the left operand
\* followed by the text of the right operand.
C5_AddConcatenatesInOperandOrder ==
    (/\ After("Add") /\ PreLen >= 2
     /\ IsString(Left_) \/ IsString(Right)
     /\ to_string(Left_).ok /\ to_string(Right).ok)
    => /\ Running
       /\ stack[Len(stack)] = String(Text(Left_) \o Text(Right))

ComparisonOps == {"Greater", "Less", "GreaterEqual", "LessEqual"}

\* C6: a comparison of operands that are not two Numbers or two Strings halts
\* with TypeMismatch.
C6_CompareMismatchHalts ==
    (/\ dispatched.instr.op \in ComparisonOps /\ PreLen >= 2
     /\ ~ Comparable(Left_, Right))
    => status = "err" /\ ErrKind(err) = "TypeMismatch"

\* C7: when execute returns, no line written by Trace is left in the buffer.
C7_OutputFlushedAtHalt ==
    status \in {"ok", "err"} => stdout_buf = <<>>

\* a binary operator has run to its end
AfterBinary == dispatched.instr.op \in BinaryOps /\ PreLen >= 2 /\ Running

\* C8: a binary operator takes the top as its right operand and the value
\* below as its left operand and leaves one result in their place; Subtract
\* leaves left - right, Divide left / right, Less greater(right, left); the
\* program 5 - 5/2.5 + 1*2 ends with 5 on top.
C8_BinaryOperandOrder ==
    /\ AfterBinary =>
        /\ Len(stack) = PreLen - 1
        /\ SubSeq(stack, 1, PreLen - 2) = SubSeq(Pre.stack, 1, PreLen - 2)
        /\ (After("Subtract") => stack[Len(stack)] = NumSub(Left_, Right))
        /\ (After("Divide") => stack[Len(stack)] = NumDiv(Left_, Right))
        /\ (After("Less") /\ Comparable(Left_, Right) =>
                stack[Len(stack)] = Bool(is_greater_than(Right, Left_)))
    /\ (fns = ArithmeticProgram /\ status = "ok") => stack = <<Int2Num(5)>>

\* a Subtract of two different Numbers has run
C8_Witness ==
    AfterBinary /\ After("Subtract") /\ Left_ # Right /\ ~ NumIsZero(Right)

\* the error conditions of the instructions: the operands that a handler
\* must refuse
TypeMismatchCondition ==
    \/ /\ dispatched.instr.op \in {"Subtract", "Multiply", "Divide"}
       /\ ~ (IsNumber(Left_) /\ IsNumber(Right))
    \/ /\ After("Add")
       /\ ~ (IsNumber(Left_) /\ IsNumber(Right))
       /\ ~ (IsString(Left_) \/ IsString(Right))
    \/ /\ dispatched.instr.op \in ComparisonOps
       /\ ~ Comparable(Left_, Right)
       /\ ~ (dispatched.instr.op \in {"GreaterEqual", "LessEqual"}
                /\ is_equal_to(Left_, Right))
CoercionCondition ==
    \/ /\ dispatched.instr.op \in {"Negate", "ToNumber"}
       /\ ~ to_number(Right).ok
    \/ /\ After("Add")
       /\ IsString(Left_) \/ IsString(Right)
       /\ ~ (to_string(Left_).ok /\ to_string(Right).ok)
DivideByZeroCondition ==
    After("Divide") /\ IsNumber(Left_) /\ IsNumber(Right) /\ NumIsZero(Right)
ErrorCondition ==
    \/ dispatched.instr.op \in BinaryOps /\ PreLen >= 2
          /\ (TypeMismatchCondition \/ CoercionCondition \/ DivideByZeroCondition)
    \/ dispatched.instr.op \in {"Negate", "ToNumber"} /\ PreLen >= 1 /\ CoercionCondition
    \/ HasCallee /\ ~ IsClosureRef(Pre, Callee)

\* C9: run ends ok only by a Return with an empty call stack, and an
\* instruction dispatched on an error condition ends the run with an error.
C9_ErrorsHalt ==
    /\ status = "ok" => After("Return") /\ Pre.callstack = <<>>
    /\ ErrorCondition => status = "err"

\* C10: Divide of two Numbers with a zero divisor halts with DivideByZero and
\* pushes nothing, with another divisor it pushes the quotient; Subtract,
\* Multiply and Divide with an operand that is no Number halt with TypeMismatch.
C10_DivideAndOperandErrors ==
    (dispatched.instr.op \in {"Subtract", "Multiply", "Divide"} /\ PreLen >= 2) =>
        /\ (After("Divide") /\ IsNumber(Left_) /\ IsNumber(Right) /\ NumIsZero(Right)) =>
                /\ status = "err"
                /\ ErrKind(err) = "DivideByZero"
                /\ stack = SubSeq(Pre.stack, 1, PreLen - 2)
        /\ (After("Divide") /\ IsNumber(Left_) /\ IsNumber(Right) /\ ~ NumIsZero(Right)) =>
                /\ Running
                /\ Len(stack) = PreLen - 1
                /\ stack[Len(stack)] = NumDiv(Left_, Right)
        /\ ~ (IsNumber(Left_) /\ IsNumber(Right)) =>
                /\ status = "err"
                /\ ErrKind(err) = "TypeMismatch"
                /\ stack = SubSeq(Pre.stack, 1, PreLen - 2)

\* a Divide of a Number by zero has run
C10_Witness ==
    /\ After("Divide") /\ PreLen >= 2
    /\ IsNumber(Left_) /\ IsNumber(Right) /\ NumIsZero(Right)
    /\ status = "err"

ConditionalJumps == {"JumpIfFalsy", "JumpIfTruthy", "PopAndJumpIfFalsy"}
\* the conditional jump that dispatched is to be taken on the value v
JumpTaken(v) == IF After("JumpIfTruthy") THEN is_truthy(v) ELSE ~ is_truthy(v)

\* C11: JumpIfFalsy and JumpIfTruthy leave the stack as it was, PopAndJumpIfFalsy
\* removes the top and nothing else; the pc moves on by the delta exactly when
\* the truthiness of the inspected value matches the instruction; a && b with
\* a falsy a ends ok with a on the stack and b never run.
C11_ConditionalJumps ==
    /\ (dispatched.instr.op \in ConditionalJumps /\ PreLen >= 1) =>
        /\ Running
        /\ stack = IF After("PopAndJumpIfFalsy")
                   THEN SubSeq(Pre.stack, 1, PreLen - 1) ELSE Pre.stack
        /\ frame.cur_instr = Pre.frame.cur_instr + 1
                                + (IF JumpTaken(Right) THEN dispatched.instr.a ELSE 0)
    /\ fns = ShortCircuitProgram =>
        /\ ~ After("Subtract")
        /\ ~ Running => status = "ok" /\ stack = <<Bool(FALSE)>>

\* a JumpIfFalsy on a falsy top has skipped instructions
C11_Witness ==
    /\ After("JumpIfFalsy") /\ PreLen >= 1 /\ Running
    /\ ~ is_truthy(Right) /\ dispatched.instr.a > 0

\* the absolute slot of local i of the frame that dispatched, i the operand
LocalSlot == Pre.frame.stack_base + dispatched.instr.a
\* the upvalue behind upvalues[i] of the closure that dispatched
PreUp == Pre.heap[Pre.frame.clsr.upvalues[dispatched.instr.a + 1]]

\* C12: SetLocal and SetUpValue keep the length and the top of the stack and
\* change only their target: the local slot, the slot of an Open upvalue or the
\* cell of a Closed one; Declare pops the top into the local slot; GetLocal
\* pushes a copy of the local slot.
C12_LocalAndUpValueStores ==
    /\ (After("SetLocal") /\ Running) =>
        /\ stack = [Pre.stack EXCEPT ![LocalSlot + 1] = Right]
        /\ Len(stack) = PreLen /\ stack[Len(stack)] = Right
        /\ heap = Pre.heap
    /\ (After("SetUpValue") /\ Running) =>
        /\ Len(stack) = PreLen /\ stack[Len(stack)] = Right
        /\ IF PreUp.kind = "Stack"
           THEN /\ stack = [Pre.stack EXCEPT ![PreUp.at + 1] = Right]
                /\ heap = Pre.heap
           ELSE /\ stack = Pre.stack
                /\ heap = [Pre.heap EXCEPT ![PreUp.at] = ObjValue(Right)]
    /\ (After("Declare") /\ Running) =>
        /\ stack = [SubSeq(Pre.stack, 1, PreLen - 1) EXCEPT ![LocalSlot + 1] = Right]
        /\ heap = Pre.heap
    /\ (After("GetLocal") /\ Running) =>
        /\ stack = Append(Pre.stack, Pre.stack[LocalSlot + 1])
        /\ heap = Pre.heap

\* a SetUpValue has written the cell of a Closed upvalue
C12_Witness ==
    /\ After("SetUpValue") /\ Running
    /\ PreUp.kind = "Heap" /\ Pre.heap[PreUp.at] # ObjValue(Right)

\* C13: Trace changes neither the stack nor the heap nor the frame but for
\* its pc, and appends one line to the output: the source line of the Trace
\* instruction in brackets, a blank, the text of the top.
C13_TracePeeksAndWritesLine ==
    (After("Trace") /\ PreLen >= 1 /\ to_string(Right).ok) =>
        /\ Running
        /\ stack = Pre.stack
        /\ heap = Pre.heap
        /\ frame = [Pre.frame EXCEPT !.cur_instr = @ + 1]
        /\ stdout \o stdout_buf =
                Pre.stdout \o Pre.stdout_buf
                    \o TraceLine(get_line_no(PreFn, Pre.frame.cur_instr), Text(Right))

\* a collection ran at the GC point of the Return that dispatched
GcPassRan == After("Return") /\ gc_thr # Pre.gc_thr

\* C14: after a collection the threshold is the number of objects the
\* collection left in the heap, times GROW; a collection runs only on a heap
\* larger than the threshold, which is GC_THR_START until the first one.
C14_ThresholdFollowsHeapAfterPass ==
    /\ GcPassRan =>
        /\ gc_thr = GrownThreshold(Nat2Big(HeapLen(heap)))
        /\ BigLess(Pre.gc_thr, Nat2Big(HeapLen(Pre.heap) + Len(PreFn.captured)))
    /\ ~ GcPassRan => gc_thr = Pre.gc_thr
    /\ BigLeq(Nat2Big(GC_THR_START), gc_thr)

\* C15: in a run that ends ok, the stack is at every instruction boundary at
\* least as long as the stack_base of the active frame.
C15_StackNotBelowBase ==
    status = "ok" => ~ below_base

IsOpen(obj) == obj.type = "UpValue" /\ obj.kind = "Stack"
IsClosed(obj) == obj.type = "UpValue" /\ obj.kind = "Heap"

\* C16: while the VM runs, the open-upvalue list holds the ids of the upvalues
\* that are Open, and no other id.
C16_OpenListHoldsOpenUpValues ==
    Running => Range(open_upvalues) = {i \in DOMAIN heap : IsOpen(heap[i])}

\* the frame of the caller as FnCall saves it
SavedFrame == [Pre.frame EXCEPT !.cur_instr = @ + 1]

\* C17: FnCall(argc) on a closure leaves the stack as it was, pushes the frame
\* of the caller with its pc after the FnCall and makes a frame of the closure
\* active, with pc 0 and stack_base len - 1 - argc: the callee is slot 0 of the
\* new frame and the arguments are its slots 1..argc.
C17_FnCallInstallsFrame ==
    (HasCallee /\ IsClosureRef(Pre, Callee)) =>
        /\ Running
        /\ stack = Pre.stack
        /\ callstack = Append(Pre.callstack, SavedFrame)
        /\ frame.cur_instr = 0
        /\ frame.stack_base = PreLen - 1 - dispatched.instr.a
        /\ frame.clsr = Closure(heap[Callee.id].func, heap[Callee.id].upvalues)
        /\ stack[frame.stack_base + 1] = Callee
        /\ Len(stack) = frame.stack_base + 1 + dispatched.instr.a
        /\ heap = Pre.heap

\* a closure has been called with one argument
C17_Witness ==
    HasCallee /\ IsClosureRef(Pre, Callee) /\ dispatched.instr.a = 1 /\ Running

\* the closure a Closure instruction has stored into its destination
Built == heap[stack[LocalSlot + 1].id]
Descriptors == dispatched.instr.upv

\* C18: Closure leaves in local dest_slot a heap reference to a new closure of
\* the function constant; its upvalues follow the descriptors in their order:
\* for a local one a new Open upvalue on slot stack_base + index, an own one
\* for each descriptor, for another one the id in upvalues[index] of the
\* active closure; no other slot and no object of the heap changes.
C18_ClosureBuildsUpValues ==
    (After("Closure") /\ Running) =>
        /\ stack[LocalSlot + 1].tag = "Heap"
        /\ stack = [Pre.stack EXCEPT ![LocalSlot + 1] = stack[LocalSlot + 1]]
        /\ SubSeq(heap, 1, Len(Pre.heap)) = Pre.heap
        /\ stack[LocalSlot + 1].id \notin DOMAIN Pre.heap
        /\ Built.type = "Closure"
        /\ Built.func \notin DOMAIN Pre.heap
        /\ heap[Built.func] = ObjFunction(get_const(PreFn, dispatched.instr.b).fn)
        /\ Len(Built.upvalues) = Len(Descriptors)
        /\ \A k \in DOMAIN Descriptors :
            IF Descriptors[k].is_local
            THEN /\ Built.upvalues[k] \notin DOMAIN Pre.heap
                 /\ heap[Built.upvalues[k]] =
                        UpValueStack(Pre.frame.stack_base + Descriptors[k].id)
                 /\ \A j \in DOMAIN Descriptors :
                        j # k => Built.upvalues[j] # Built.upvalues[k]
            ELSE Built.upvalues[k] = Pre.frame.clsr.upvalues[Descriptors[k].id + 1]

\* a closure has been built in a called frame from a local and from an upvalue
\* of the enclosing closure
C18_Witness ==
    /\ After("Closure") /\ Running /\ Pre.frame.stack_base > 0
    /\ \E k, j \in DOMAIN Descriptors :
        Descriptors[k].is_local /\ ~ Descriptors[j].is_local

\* C19: an upvalue enters the heap Open, and an upvalue that is Closed on a
\* cell is Closed on that cell after every instruction, unless the collector
\* has freed it.
C19_ClosedStaysClosed ==
    /\ \A i \in DOMAIN heap \ DOMAIN Pre.heap :
        heap[i].type = "UpValue" => IsOpen(heap[i])
    /\ \A i \in DOMAIN Pre.heap :
        IsClosed(Pre.heap[i]) => heap[i] \in {Pre.heap[i], ObjFree}

\* a Return has closed an upvalue on the slot number that an upvalue Closed
\* before it had in an earlier frame
C19_Witness ==
    /\ fns = RecaptureProgram /\ ReturnedFromCallee
    /\ \E i, j \in DOMAIN Pre.heap :
        /\ IsClosed(Pre.heap[i]) /\ heap[i] = Pre.heap[i]
        /\ IsOpenOn(Pre.heap[j], Pre.frame.stack_base + 1)
        /\ IsClosed(heap[j]) /\ heap[j].at # heap[i].at

Jumps == ConditionalJumps \cup {"Jump"}
\* the delta the instruction that dispatched adds to the pc
Delta ==
    IF After("Jump") \/ (dispatched.instr.op \in ConditionalJumps /\ JumpTaken(Right))
    THEN dispatched.instr.a ELSE 0
SameActivation == frame.clsr = Pre.frame.clsr /\ frame.stack_base = Pre.frame.stack_base

\* C20: an instruction fetched at index i that is neither a call nor a Return
\* leaves the frame active with its pc at i + 1, and at i + 1 + d for a Jump(d)
\* or a conditional jump that is taken; a call saves the frame with pc i + 1
\* and a Return makes the saved frame active as it was saved: the pc of an
\* activation never decreases.
C20_PcMovesForward ==
    /\ (dispatched.instr.op \notin {"None", "FnCall", "Return"} /\ status # "panic") =>
        /\ SameActivation
        /\ frame.cur_instr = Pre.frame.cur_instr + 1 + Delta
        /\ frame.cur_instr > Pre.frame.cur_instr
    /\ (After("FnCall") /\ Running) =>
        \/ frame = SavedFrame
        \/ callstack = Append(Pre.callstack, SavedFrame)
    /\ ReturnedFromCallee => frame = Pre.callstack[Len(Pre.callstack)]

\* a Jump with a delta has run, and a Jump with delta 0
C20_Witness ==
    After("Jump") /\ Running /\ dispatched.instr.a = MaxJump

-----------------------------------------------------------------------------
(* The index arithmetic on stacks of any length.  A probe runs the code     *)
(* that indexes the stack on a stack whose slot k holds the value Slot(k),  *)
(* and records the slot that was read.                                      *)

Lengths == (1..MaxLow) \cup ((U16 - MaxExtra)..(U16 + MaxExtra))
\* a frame's stack_base comes from the u16 funcpos of its call
Bases == {b \in Lengths \cup {0} : b < U16}

\* the value of slot k: a reference that tells the slot
Slot(k) == HeapRef(k)
\* a VM with a stack of len values and the active frame at stack_base
ProbeVM(len, stack_base) ==
    [InitVM EXCEPT !.stack = [i \in 1..len |-> Slot(i - 1)],
                   !.frame.stack_base = stack_base]

\* the probes: the top of a stack of len values, the callee of FnCall(arg) on
\* a stack of len values, local arg of a frame whose stack_base is len
Probes ==
    {[NoProbe EXCEPT !.kind = "top", !.len = len] : len \in Lengths}
        \cup {[NoProbe EXCEPT !.kind = "callee", !.len = len, !.arg = arg_count] :
                len \in Lengths, arg_count \in 0..MaxArgs}
        \cup {[NoProbe EXCEPT !.kind = "local", !.len = stack_base, !.arg = id] :
                stack_base \in Bases, id \in 0..MaxArgs}

\* what a handler left: a panic, or the slot it has read, found at position at
Outcome(r, at) ==
    [probe EXCEPT !.done = TRUE, !.panic = r.status = "panic",
                  !.read = IF r.status = "panic" THEN 0 ELSE r.stack[at].id]

Probing(kind) == probe.kind = kind /\ ~ probe.done
VMUnchanged ==
    UNCHANGED <<fns, frame, callstack, open_upvalues, stack, heap, gc_thr,
                stdout_buf, stdout, status, err, dispatched, below_base>>

\* get_stack_top in SetLocal(0) of a frame at stack_base 0: the slot read is
\* the one found in local 0
ProbeTop ==
    /\ Probing("top")
    /\ \E r \in DoSetLocal(ProbeVM(probe.len, 0), I1("SetLocal", 0)) :
            probe' = Outcome(r, 1)
    /\ VMUnchanged

\* funcpos and get_stack(funcpos) in FnCall(arg_count), with the value read
\* pushed in place of the call
CalleeRead(vm, arg_count) ==
    (IF FuncPosOverflow(vm, arg_count) THEN {Panic(vm)} ELSE {})
        \cup (IF InStack(vm, FuncPos(vm, arg_count).wrapped)
              THEN {Push(vm, get_stack(vm, FuncPos(vm, arg_count).wrapped))}
              ELSE {Panic(vm)})

ProbeCallee ==
    /\ Probing("callee")
    /\ \E r \in CalleeRead(ProbeVM(probe.len, 0), probe.arg) :
            probe' = Outcome(r, probe.len + 1)
    /\ VMUnchanged

\* GetLocal(id) in a frame at stack_base, on a stack that ends with local id
ProbeLocal ==
    /\ Probing("local")
    /\ \E r \in DoGetLocal(ProbeVM(probe.len + probe.arg + 1, probe.len),
                           I1("GetLocal", probe.arg)) :
            probe' = Outcome(r, probe.len + probe.arg + 2)
    /\ VMUnchanged

InitIndex ==
    /\ fns = KwexprProgram
    /\ frame = InitVM.frame
    /\ callstack = InitVM.callstack
    /\ open_upvalues = InitVM.open_upvalues
    /\ stack = InitVM.stack
    /\ heap = InitVM.heap
    /\ gc_thr = InitVM.gc_thr
    /\ stdout_buf = InitVM.stdout_buf
    /\ stdout = InitVM.stdout
    /\ status = InitVM.status
    /\ err = InitVM.err
    /\ dispatched = [instr |-> None, vm |-> InitVM]
    /\ below_base = FALSE
    /\ probe \in Probes

NextIndex == ProbeTop \/ ProbeCallee \/ ProbeLocal

SpecIndex == InitIndex /\ [][NextIndex]_vars

\* C21: on a stack that is not empty the peek of the top reads the slot
\* len - 1, FnCall(argc) reads its callee from the slot len - 1 - argc and local
\* i of a frame is read from the slot stack_base + i, none of them panics, for
\* stacks of fewer and of more than U16 values.
C21_IndexArithmeticIsExact ==
    probe.done =>
        /\ ~ (probe.kind = "callee" /\ probe.len - 1 - probe.arg < 0) => ~ probe.panic
        /\ probe.kind = "top" => probe.read = probe.len - 1
        /\ (probe.kind = "callee" /\ probe.len - 1 - probe.arg >= 0) =>
                probe.read = probe.len - 1 - probe.arg
        /\ probe.kind = "local" => probe.read = probe.len + probe.arg

====
